---- MODULE Spec2Model ----
(***************************************************************************)
(* A model of DBUtil (mythtv/libs/libmythbase/dbutil.cpp): the backup      *)
(* orchestration BackupDB with its two DoBackup paths, the reduction of     *)
(* CHECK TABLE / REPAIR TABLE result sets, CheckRepairStatus, the table    *)
(* audit CheckTables / RepairTables, and the DBMS version probe.           *)
(***************************************************************************)
EXTENDS Integers, Sequences, FiniteSets, TLC

VARIABLES
    \* ---- the result set handed to CheckRepairStatus, and what it returned
    rows,           \* the rows query.next() yields, in order
    statusCalled,   \* CheckRepairStatus has run on rows
    badTables,      \* the QStringList it returned
    \* ---- the store and the host shared by every process running BackupDB
    now,            \* QDateTime::currentDateTime(), in clock ticks
    settings,       \* the settings BackupDBLastRunStart and BackupDBLastRunEnd
    housekeeping,   \* the rows of table housekeeping, in insertion order
    tmpFiles,       \* the files /tmp/mythtv_db_backup_conf_* that exist
    \* ---- one BackupDB call per process
    pc,             \* where each process is in BackupDB
    loc,            \* the locals of BackupDB and of the DoBackup it is in
    filename,       \* the out-parameter QString &filename
    outcome,        \* the MythDBBackupStatus returned, "none" until it returns
    trace,          \* what the running (or last) call has done so far, in order
    ledgerLast,     \* how the last call to leave the bookkeeping left: it
                    \* "returned" or it "crashed" ("none" before any)
    \* ---- one CheckTables or RepairTables call
    auditPc,        \* "idle", or "repair" while CheckTables is in RepairTables
    audit,          \* the arguments, result sets, statements and results of the call
    \* ---- the DBUtil instance that probes the DBMS version
    override,       \* the setting DBMSVersionOverride
    server,         \* what SELECT VERSION() answers when it succeeds
    m_versionString,
    m_versionMajor,
    m_versionMinor,
    m_versionPoint,
    lastCall,       \* the last GetDBMSVersion or CompareDBMSVersion call
    \* ---- one IsNewDatabase call
    dbTables,       \* the base tables of the store, as GetTables lists them
    tablesListed,   \* the list GetTables returned to IsNewDatabase
    newDb,          \* what IsNewDatabase returned, <<>> until it returns
    \* ---- one IsBackupInProgress call (it reads now and settings)
    inProgress,     \* what IsBackupInProgress returned, <<>> until it returns
    \* ---- the schema lock: the server and one connection per process
    dbLocks,        \* the table locks the server holds, each for a connection
    conn,           \* the connection of each process: "up" or "lost"
    lockPc,         \* where each process is with lockSchema and unlockSchema
    lockLast        \* the last lockSchema or unlockSchema step

statusVars == <<rows, statusCalled, badTables>>

backupVars == <<now, settings, housekeeping, tmpFiles, pc, loc, filename,
                outcome, trace, ledgerLast>>

auditVars == <<auditPc, audit>>

versionVars == <<override, server, m_versionString, m_versionMajor,
                 m_versionMinor, m_versionPoint, lastCall>>

newDbVars == <<dbTables, tablesListed, newDb>>

progressVars == <<inProgress>>

lockVars == <<dbLocks, conn, lockPc, lockLast>>

\* The parts a CheckRepairStatus or BackupDB step leaves alone.
restVars == <<auditVars, versionVars, newDbVars, progressVars, lockVars>>

\* What a step of the table audit, of the version probe and of IsNewDatabase
\* leaves alone.
exceptAudit == <<statusVars, backupVars, versionVars, newDbVars, progressVars, lockVars>>

exceptVersion == <<statusVars, backupVars, auditVars, newDbVars, progressVars, lockVars>>

exceptNewDb == <<statusVars, backupVars, auditVars, versionVars, progressVars, lockVars>>

\* What a step of the schema lock leaves alone.
exceptLock == <<statusVars, backupVars, auditVars, versionVars, newDbVars, progressVars>>

vars == <<statusVars, backupVars, restVars>>

(***************************************************************************)
(* Bounds.                                                                 *)
(***************************************************************************)
MaxRows == 3        \* longest result set handed to CheckRepairStatus
MaxTime == 3        \* the clock stops advancing after this many ticks
TicksPerSecond == 2 \* clock ticks in one second of the timestamp format
MaxHousekeeping == 3 \* rows table housekeeping can take

(***************************************************************************)
(* Helpers on sequences.                                                   *)
(***************************************************************************)
Range(s) == {s[i] : i \in 1..Len(s)}

SeqsUpTo(S, n) == UNION {[1..k -> S] : k \in 0..n}

(***************************************************************************)
(* QStrings of BackupDB are sequences of pieces (literals and the values   *)
(* put into them by arg() and +); the empty QString is the empty sequence. *)
(***************************************************************************)
\* The processes that call BackupDB against the same store.
Procs == {"mythbackend", "mythfrontend"}

\* exitcodes.h, as tested by DoBackup.
GENERIC_EXIT_OK == 0

\* What myth_system can return.
ExitCodes == {GENERIC_EXIT_OK, 1}

\* MythDBBackupStatus.
kDB_Backup_Completed == "Completed"
kDB_Backup_Failed    == "Failed"
kDB_Backup_Disabled  == "Disabled"
kDB_Backup_Empty_DB  == "EmptyStore"

\* gCoreContext->GetDatabaseParams() and GetSetting("DBSchemaVer").
DBParams ==
    [dbHostName |-> "localhost", dbPort |-> 3306, dbUserName |-> "mythtv",
     dbPassword |-> "s3cret", dbName |-> "mythconverg"]

DBSchemaVer == "1264"

\* The names createTempFile can give /tmp/mythtv_db_backup_conf_XXXXXX.
TempNames == {"/tmp/mythtv_db_backup_conf_a1b2c3", "/tmp/mythtv_db_backup_conf_d4e5f6"}

\* Fully qualified table names as GetTables builds them (the quote characters
\* around schema and table are not written).
SchemaLockTable == "mythconverg.schemalock"
RecordedTable   == "mythconverg.recorded"

\* What the store can hold.
StoreContents ==
    { <<>>, <<SchemaLockTable>>, <<RecordedTable>>, <<RecordedTable, SchemaLockTable>> }

\* The connection of a query: usable, not connected, or exec() fails.
DbStates == {"up", "down", "queryFails"}

\* GetTables(): the empty list when not connected or when the query fails.
GetTables(store, db) ==
    IF db = "down" THEN <<>>
    ELSE IF db = "queryFails" THEN <<>>
    ELSE store

\* QString::contains in place of QString::endsWith, on the table names a
\* store can list.
containsSchemalock(t) ==
    t \in {SchemaLockTable, "mythconverg.schemalock_old", "mythconverg.myschemalock2"}

\* QString::endsWith of the schemalock suffix, on the table names a store
\* can list.
endsWithSchemalock(t) == t \in {SchemaLockTable}

\* IsNewDatabase() on the list GetTables returned.
IsNewDatabase(tables) ==
    \/ (Len(tables) = 1 /\ endsWithSchemalock(tables[1]))
    \/ Len(tables) = 0

\* toString("yyyy-MM-dd hh:mm:ss") and toString("yyyyMMddhhmmss"): the clock
\* cut to whole seconds.
FormatTime(t) == t \div TicksPerSecond

\* A setting that holds a timestamp: the empty string or one formatted time.
SettingsInit == [BackupDBLastRunStart |-> <<>>, BackupDBLastRunEnd |-> <<>>]

\* GetShareDir() + "mythconverg_backup.pl", or the DatabaseBackupScript setting.
BackupScriptPath == <<"/usr/share/mythtv/", "mythconverg_backup.pl">>

\* The values of the setting BackupDBScriptArgs.
ScriptArgsSettings == {"", "--verbose", "Rotate=5"}

\* scriptArgs.contains("rotate", Qt::CaseInsensitive) on those values.
containsRotate(a) == a \in {"Rotate=5"}

\* What the "DB Backups" storage group offers: no usable directory, or one.
StorageGroupDirs == {"", "/srv/mythtv/db_backups"}

\* GetBackupDirectory(): the directory of the storage group, else /tmp.
GetBackupDirectory(sgDir) == IF sgDir = "" THEN <<"/tmp">> ELSE <<sgDir>>

\* CreateBackupFilename(prefix, extension) at time t.
CreateBackupFilename(prefix, extension, t) ==
    prefix \o <<"-", ToString(FormatTime(t)), extension>>

\* The files a directory scan for backupFilename + "*" can list, as the
\* suffixes that follow backupFilename, in listing order.
ScanListings == { <<>>, <<"">>, <<".gz">>, <<"", ".gz">> }

\* The well-known places of the compressor that can exist.
GzipInstalls == SUBSET {"/bin/gzip", "/usr/bin/gzip"}

\* The locals of a BackupDB call before it has set any.
LocInit ==
    [backupScript |-> <<>>, result |-> FALSE, connected |-> FALSE,
     hastemp |-> FALSE, tempFile |-> <<>>, command |-> <<>>,
     compressCommand |-> <<>>, backupDirectory |-> <<>>,
     backupFilename |-> <<>>, backupPathname |-> <<>>]

\* One entry of trace: an operation and its number.
Ev(op, n) == [op |-> op, n |-> n]

\* The values of the variables of the other part of the model while one part runs.
StatusIdle ==
    /\ rows = <<>>
    /\ statusCalled = FALSE
    /\ badTables = <<>>

\* No process is in BackupDB and none has called it.
NoBackupCall ==
    /\ tmpFiles = {}
    /\ pc = [p \in Procs |-> "idle"]
    /\ loc = [p \in Procs |-> LocInit]
    /\ filename = [p \in Procs |-> <<>>]
    /\ outcome = [p \in Procs |-> "none"]
    /\ trace = [p \in Procs |-> <<>>]
    /\ ledgerLast = "none"

BackupIdle ==
    /\ now = 0
    /\ settings = SettingsInit
    /\ housekeeping = << [tag |-> "DailyCleanup", lastrun |-> 0] >>
    /\ tmpFiles = {}
    /\ pc = [p \in Procs |-> "idle"]
    /\ loc = [p \in Procs |-> LocInit]
    /\ filename = [p \in Procs |-> <<>>]
    /\ outcome = [p \in Procs |-> "none"]
    /\ trace = [p \in Procs |-> <<>>]
    /\ ledgerLast = "none"

\* No CheckTables or RepairTables call has been made: no statement issued, no
\* value returned (a returned bool is held as a one-element sequence).
AuditNone ==
    [call |-> "none", repair |-> FALSE,
     checkConnected |-> FALSE, all_tables |-> <<>>, checkExec |-> FALSE,
     checkRows |-> <<>>, tables |-> <<>>, checkRet |-> <<>>,
     repairArg |-> <<>>, repairConnected |-> FALSE, repairExec |-> FALSE,
     repairRows |-> <<>>, bad_tables |-> <<>>, repairRet |-> <<>>,
     issued |-> <<>>]

AuditIdle ==
    /\ auditPc = "idle"
    /\ audit = AuditNone

\* No call has been made on the DBUtil instance.
NoCall ==
    [op |-> "none", args |-> <<>>, probes |-> 0, queries |-> 0, result |-> <<>>]

\* DBUtil::DBUtil(): a null version string and three components of -1.
VersionIdle ==
    /\ override = <<>>
    /\ server = <<>>
    /\ m_versionString = <<>>
    /\ m_versionMajor = -1
    /\ m_versionMinor = -1
    /\ m_versionPoint = -1
    /\ lastCall = NoCall

\* IsNewDatabase has not been called; the store holds one table.
NewDbIdle ==
    /\ dbTables = <<RecordedTable>>
    /\ tablesListed = <<>>
    /\ newDb = <<>>

\* IsBackupInProgress has not been called.
ProgressIdle == inProgress = <<>>

\* No lockSchema or unlockSchema step has been made.
NoLockStep == [op |-> "none", p |-> "none", ok |-> FALSE]

\* No connection holds a table lock and no process has called lockSchema.
LockIdle ==
    /\ dbLocks = {}
    /\ conn = [p \in Procs |-> "up"]
    /\ lockPc = [p \in Procs |-> "idle"]
    /\ lockLast = NoLockStep

RestIdle == AuditIdle /\ VersionIdle /\ NewDbIdle /\ ProgressIdle /\ LockIdle

(***************************************************************************)
(* BackupDB and the two DoBackup.  A call is cut where it waits for the    *)
(* store or for an external process, so that calls of several processes    *)
(* interleave there.  trace lists what the call has done: the operation    *)
(* and a number (a setting read, a time, an exit status, 1 for success).   *)
(***************************************************************************)
\* if (gCoreContext->GetNumSetting("DisableAutomaticBackup", 0))
BackupDisabled(disable) == disable # 0

\* The preconditions of BackupDB with the table listing made first.
ListingFirstPreconditions(disable, store, db) ==
    LET listed == << Ev("GetNumSetting", disable),
                     Ev("GetTables", Len(GetTables(store, db))) >>
    IN  IF IsNewDatabase(GetTables(store, db))
        THEN [status |-> kDB_Backup_Empty_DB, did |-> listed]
        ELSE IF BackupDisabled(disable)
        THEN [status |-> kDB_Backup_Disabled, did |-> listed]
        ELSE [status |-> "none", did |-> listed]

\* The preconditions of BackupDB: the status it returns at once ("none" when
\* it goes on) and what it did to find out.
Preconditions(disable, store, db) ==
    IF BackupDisabled(disable)
    THEN [status |-> kDB_Backup_Disabled,
          did    |-> << Ev("GetNumSetting", disable) >>]
    ELSE LET listed == << Ev("GetNumSetting", disable),
                          Ev("GetTables", Len(GetTables(store, db))) >>
         IN  IF IsNewDatabase(GetTables(store, db))
             THEN [status |-> kDB_Backup_Empty_DB, did |-> listed]
             ELSE [status |-> "none", did |-> listed]

\* if (!backupScript.isEmpty())
ScriptConfigured(backupScript) == backupScript # <<>>

\* The internal path run whatever the script attempt returned.
RunInternalAlways(result) == TRUE

\* if (!result) result = DoBackup(filename);
RunInternal(result) == ~result

\* if (status != GENERIC_EXIT_OK)
ExitFailed(status) == status # GENERIC_EXIT_OK

\* The status of a call that reports every run as completed.
AlwaysCompleted(result) == kDB_Backup_Completed

\* if (result) return kDB_Backup_Completed; return kDB_Backup_Failed;
BackupStatus(result) ==
    IF result THEN kDB_Backup_Completed ELSE kDB_Backup_Failed

\* An end time written over the start time.
SaveSettingAsStart(s, key, value) == [s EXCEPT !.BackupDBLastRunStart = <<value>>]

\* gCoreContext->SaveSettingOnHost(key, value, NULL)
SaveSettingOnHost(s, key, value) == [s EXCEPT ![key] = <<value>>]

\* An unlink that removes nothing.
UnlinkNothing(files, path) == files

\* The files left after unlink(path).
Unlink(files, path) == {f \in files : <<f.path>> # path}

\* The names createTempFile can still give.
FreeTempNames == TempNames \ {f.path : f \in tmpFiles}

\* privateinfo of DoBackup(backupScript, filename).
ScriptPrivateInfo(backupDirectory, backupFilename, rotate) ==
    << "DBHostName=", DBParams.dbHostName, "\nDBPort=", ToString(DBParams.dbPort),
       "\nDBUserName=", DBParams.dbUserName, "\nDBPassword=", DBParams.dbPassword,
       "\nDBName=", DBParams.dbName, "\nDBSchemaVer=", DBSchemaVer,
       "\nDBBackupDirectory=" >> \o backupDirectory
    \o << "\nDBBackupFilename=" >> \o backupFilename \o << "\n", rotate, "\n" >>

\* privateinfo of DoBackup(filename).
DumpPrivateInfo ==
    << "[client]\npassword=", DBParams.dbPassword,
       "\n[mysqldump]\npassword=", DBParams.dbPassword, "\n" >>

\* command of DoBackup(backupScript, filename).
ScriptCommand(backupScript, scriptArgs, tempDatabaseConfFile) ==
    backupScript \o scriptArgs \o <<" ">> \o tempDatabaseConfFile

\* A dump command that names the password instead of the staged file.
DumpCommandWithPassword(tempExtraConfFile, backupPathname) ==
    << "mysqldump --password='", DBParams.dbPassword,
       "' --host='", DBParams.dbHostName, "' --user='", DBParams.dbUserName,
       "' '", DBParams.dbName, "' > '" >> \o backupPathname
    \o << "' 2>/dev/null" >>

\* command of DoBackup(filename).
DumpCommand(tempExtraConfFile, backupPathname) ==
    LET portArg == IF DBParams.dbPort > 0
                   THEN <<" --port='", ToString(DBParams.dbPort), "'">>
                   ELSE <<>>
    IN  << "mysqldump --defaults-extra-file='" >> \o tempExtraConfFile
        \o << "' --host='", DBParams.dbHostName, "'" >> \o portArg
        \o << " --user='", DBParams.dbUserName,
              "' --add-drop-table --add-locks --allow-keywords --complete-insert"
              \o " --extended-insert --lock-tables --no-create-db --quick '",
              DBParams.dbName, "' > '" >> \o backupPathname
        \o << "' 2>/dev/null" >>

\* A scan that takes the last file of the listing.
ScriptArtifactLast(backupDirectory, backupFilename, listing) ==
    IF Len(listing) < 1 THEN <<>>
    ELSE backupDirectory \o <<"/">> \o backupFilename
         \o (IF listing[Len(listing)] # "" THEN <<listing[Len(listing)]>> ELSE <<>>)

\* filename after the scan of QDir(backupDirectory, backupFilename + "*"):
\* empty when nothing is listed, else dir.path() + "/" + dir[0].
ScriptArtifact(backupDirectory, backupFilename, listing) ==
    IF Len(listing) < 1 THEN <<>>
    ELSE backupDirectory \o <<"/">> \o backupFilename
         \o (IF listing[1] # "" THEN <<listing[1]>> ELSE <<>>)

\* What the scan found, as entries of trace: the number of files and the
\* first of them.
ScanEvents(listing) ==
    << Ev("Scan", Len(listing)) >>
    \o (IF Len(listing) < 1 THEN <<>>
        ELSE IF listing[1] = "" THEN << Ev("dir[0]=backupFilename", 0) >>
        ELSE << Ev("dir[0]=backupFilename.gz", 0) >>)

\* A pathname that gets the extension whatever the compressor returned.
CompressedAlways(backupPathname, status) == backupPathname \o <<".gz">>

\* backupPathname after myth_system(compressCommand).
CompressedPathname(backupPathname, status) ==
    IF ExitFailed(status) THEN backupPathname ELSE backupPathname \o <<".gz">>

\* A DoBackup(filename) that leaves filename as it found it.
FilenameKept(old, backupPathname) == old

\* filename = backupPathname; return true;
FilenameReturned(old, backupPathname) == backupPathname

\* The locals of BackupDB once a DoBackup has returned: the locals of the
\* DoBackup are gone.
AfterDoBackup(l, result) ==
    [LocInit EXCEPT !.backupScript = l.backupScript,
                    !.connected = l.connected,
                    !.result = result]

\* BackupDB up to the first DoBackup: the preconditions, the script lookup,
\* the connection of query and the start timestamp.
BackupDB_Begin(p, disable, store, db, scriptExists, connected) ==
    /\ pc[p] = "idle"
    /\ UNCHANGED <<statusVars, restVars, now, housekeeping, tmpFiles, ledgerLast>>
    /\ filename' = [filename EXCEPT ![p] = <<>>]
    /\ LET pre == Preconditions(disable, store, db)
           backupScript == IF scriptExists THEN BackupScriptPath ELSE <<>>
       IN  IF pre.status # "none"
           THEN /\ outcome' = [outcome EXCEPT ![p] = pre.status]
                /\ trace' = [trace EXCEPT ![p] = pre.did]
                /\ loc' = [loc EXCEPT ![p] = LocInit]
                /\ UNCHANGED <<pc, settings>>
           ELSE /\ outcome' = [outcome EXCEPT ![p] = "none"]
                /\ loc' = [loc EXCEPT ![p] =
                              [LocInit EXCEPT !.backupScript = backupScript,
                                              !.connected = connected]]
                /\ settings' = SaveSettingOnHost(settings, "BackupDBLastRunStart",
                                                 FormatTime(now))
                /\ trace' = [trace EXCEPT ![p] =
                                pre.did
                                \o << Ev("ScriptExists", IF scriptExists THEN 1 ELSE 0),
                                      Ev("SaveStart", FormatTime(now)) >>]
                /\ pc' = [pc EXCEPT ![p] =
                             IF ScriptConfigured(backupScript) THEN "script"
                             ELSE IF RunInternal(FALSE) THEN "internal"
                             ELSE "end"]

\* DoBackup(backupScript, filename) up to myth_system(command): the
\* credentials are staged and the script is started.
DoBackupScript_Invoke(p, scriptArgsSetting, sgDir, stageOk, name) ==
    /\ pc[p] = "script"
    /\ stageOk => name \in FreeTempNames
    /\ LET backupDirectory == GetBackupDirectory(sgDir)
           backupFilename  ==
               CreateBackupFilename(<<DBParams.dbName, "-", DBSchemaVer>>, ".sql", now)
           scriptArgs == IF scriptArgsSetting # "" THEN <<" ", scriptArgsSetting>>
                                                   ELSE <<>>
           rotate     == IF scriptArgsSetting # "" /\ containsRotate(scriptArgsSetting)
                         THEN "" ELSE "rotate=-1"
           privateinfo == ScriptPrivateInfo(backupDirectory, backupFilename, rotate)
           tempDatabaseConfFile == IF stageOk THEN <<name>> ELSE <<>>
           command == ScriptCommand(loc[p].backupScript, scriptArgs,
                                    tempDatabaseConfFile)
       IN  /\ tmpFiles' = IF stageOk
                          THEN tmpFiles \cup
                               {[path |-> name, content |-> privateinfo, owner |-> p]}
                          ELSE tmpFiles
           /\ loc' = [loc EXCEPT ![p].backupDirectory = backupDirectory,
                                 ![p].backupFilename = backupFilename,
                                 ![p].hastemp = stageOk,
                                 ![p].tempFile = tempDatabaseConfFile,
                                 ![p].command = command]
           /\ trace' = [trace EXCEPT ![p] =
                           @ \o << Ev("DoBackupScript", 0),
                                   Ev("Stage", IF stageOk THEN 1 ELSE 0),
                                   Ev("Invoke:script", 0) >>]
    /\ pc' = [pc EXCEPT ![p] = "scriptRun"]
    /\ UNCHANGED <<statusVars, restVars, now, settings, housekeeping, filename, outcome,
                   ledgerLast>>

\* DoBackup(backupScript, filename) from the return of myth_system on, and
\* the test of its result in BackupDB.
DoBackupScript_Return(p, status, listing) ==
    /\ pc[p] = "scriptRun"
    /\ tmpFiles' = IF loc[p].hastemp THEN Unlink(tmpFiles, loc[p].tempFile)
                                     ELSE tmpFiles
    /\ LET unlinked == IF loc[p].hastemp THEN << Ev("Unlink", 0) >> ELSE <<>>
           result   == ~ExitFailed(status)
           scanned  == IF ExitFailed(status) THEN <<>> ELSE ScanEvents(listing)
       IN  /\ trace' = [trace EXCEPT ![p] =
                           @ \o << Ev("Exit:script", status) >> \o unlinked
                             \o scanned]
           /\ filename' = [filename EXCEPT ![p] =
                              IF ExitFailed(status) THEN <<"__FAILED__">>
                              ELSE ScriptArtifact(loc[p].backupDirectory,
                                                  loc[p].backupFilename, listing)]
           /\ loc' = [loc EXCEPT ![p] = AfterDoBackup(@, result)]
           /\ pc' = [pc EXCEPT ![p] = IF RunInternal(result) THEN "internal"
                                                             ELSE "end"]
    /\ UNCHANGED <<statusVars, restVars, now, settings, housekeeping, outcome, ledgerLast>>

\* DoBackup(filename) up to myth_system(command): the compressor is looked
\* up, the credentials are staged and the dump utility is started; when the
\* staging fails DoBackup returns false at once.
DoBackup_Invoke(p, installed, sgDir, stageOk, name) ==
    /\ pc[p] = "internal"
    /\ stageOk => name \in FreeTempNames
    /\ LET backupDirectory == GetBackupDirectory(sgDir)
           compressCommand == IF "/bin/gzip" \in installed THEN <<"/bin/gzip">>
                              ELSE IF "/usr/bin/gzip" \in installed
                              THEN <<"/usr/bin/gzip">>
                              ELSE <<>>
           backupFilename  ==
               CreateBackupFilename(<<DBParams.dbName, "-", DBSchemaVer>>, ".sql", now)
           backupPathname  == backupDirectory \o <<"/">> \o backupFilename
           tempExtraConfFile == IF stageOk THEN <<name>> ELSE <<>>
           command == DumpCommand(tempExtraConfFile, backupPathname)
       IN  IF ~stageOk
           THEN /\ loc' = [loc EXCEPT ![p] = AfterDoBackup(@, FALSE)]
                /\ trace' = [trace EXCEPT ![p] =
                                @ \o << Ev("DoBackup", 0), Ev("Stage", 0) >>]
                /\ pc' = [pc EXCEPT ![p] = "end"]
                /\ UNCHANGED tmpFiles
           ELSE /\ tmpFiles' = tmpFiles \cup
                       {[path |-> name, content |-> DumpPrivateInfo, owner |-> p]}
                /\ loc' = [loc EXCEPT ![p].backupDirectory = backupDirectory,
                                      ![p].backupFilename = backupFilename,
                                      ![p].backupPathname = backupPathname,
                                      ![p].compressCommand = compressCommand,
                                      ![p].hastemp = TRUE,
                                      ![p].tempFile = tempExtraConfFile,
                                      ![p].command = command]
                /\ trace' = [trace EXCEPT ![p] =
                                @ \o << Ev("DoBackup", 0), Ev("Stage", 1),
                                        Ev("Invoke:dump", 0) >>]
                /\ pc' = [pc EXCEPT ![p] = "dumpRun"]
    /\ UNCHANGED <<statusVars, restVars, now, settings, housekeeping, filename, outcome,
                   ledgerLast>>

\* DoBackup(filename) from the return of the dump utility on: the staged
\* file is unlinked; a failed dump returns false, a good one starts the
\* compressor when there is one and otherwise returns true.
DoBackup_DumpReturn(p, status) ==
    /\ pc[p] = "dumpRun"
    /\ tmpFiles' = Unlink(tmpFiles, loc[p].tempFile)
    /\ LET done == << Ev("Exit:dump", status), Ev("Unlink", 0) >>
           compressCommand == loc[p].compressCommand \o <<" ">> \o loc[p].backupPathname
       IN  IF ExitFailed(status)
           THEN /\ filename' = [filename EXCEPT ![p] = <<"__FAILED__">>]
                /\ loc' = [loc EXCEPT ![p] = AfterDoBackup(@, FALSE)]
                /\ trace' = [trace EXCEPT ![p] = @ \o done]
                /\ pc' = [pc EXCEPT ![p] = "end"]
           ELSE IF loc[p].compressCommand # <<>>
           THEN /\ loc' = [loc EXCEPT ![p].compressCommand = compressCommand,
                                      ![p].command = compressCommand,
                                      ![p].hastemp = FALSE,
                                      ![p].tempFile = <<>>]
                /\ trace' = [trace EXCEPT ![p] =
                                @ \o done \o << Ev("Invoke:gzip", 0) >>]
                /\ pc' = [pc EXCEPT ![p] = "gzipRun"]
                /\ UNCHANGED filename
           ELSE /\ filename' = [filename EXCEPT ![p] =
                                   FilenameReturned(@, loc[p].backupPathname)]
                /\ loc' = [loc EXCEPT ![p] = AfterDoBackup(@, TRUE)]
                /\ trace' = [trace EXCEPT ![p] = @ \o done]
                /\ pc' = [pc EXCEPT ![p] = "end"]
    /\ UNCHANGED <<statusVars, restVars, now, settings, housekeeping, outcome, ledgerLast>>

\* DoBackup(filename) from the return of the compressor on.
DoBackup_GzipReturn(p, status) ==
    /\ pc[p] = "gzipRun"
    /\ filename' = [filename EXCEPT ![p] =
                       FilenameReturned(@, CompressedPathname(loc[p].backupPathname,
                                                              status))]
    /\ loc' = [loc EXCEPT ![p] = AfterDoBackup(@, TRUE)]
    /\ trace' = [trace EXCEPT ![p] = @ \o << Ev("Exit:gzip", status) >>]
    /\ pc' = [pc EXCEPT ![p] = "end"]
    /\ UNCHANGED <<statusVars, restVars, now, settings, housekeeping, tmpFiles, outcome,
                   ledgerLast>>

\* BackupDB after the attempts: the end timestamp; without a connection the
\* bookkeeping is skipped and BackupDB returns.
BackupDB_RecordEnd(p) ==
    /\ pc[p] = "end"
    /\ settings' = SaveSettingOnHost(settings, "BackupDBLastRunEnd", FormatTime(now))
    /\ trace' = [trace EXCEPT ![p] = @ \o << Ev("SaveEnd", FormatTime(now)) >>]
    /\ IF loc[p].connected
       THEN /\ pc' = [pc EXCEPT ![p] = "hkDelete"]
            /\ UNCHANGED <<outcome, ledgerLast>>
       ELSE /\ pc' = [pc EXCEPT ![p] = "idle"]
            /\ outcome' = [outcome EXCEPT ![p] = BackupStatus(loc[p].result)]
            /\ ledgerLast' = "returned"
    /\ UNCHANGED <<statusVars, restVars, now, housekeeping, tmpFiles, loc, filename>>

\* DELETE FROM housekeeping WHERE tag = "BackupDB"; a failed exec is reported
\* and changes nothing.
BackupDB_Delete(p, execOk) ==
    /\ pc[p] = "hkDelete"
    /\ housekeeping' = IF execOk
                       THEN SelectSeq(housekeeping, LAMBDA r : r.tag # "BackupDB")
                       ELSE housekeeping
    /\ trace' = [trace EXCEPT ![p] = @ \o << Ev("Delete", IF execOk THEN 1 ELSE 0) >>]
    /\ pc' = [pc EXCEPT ![p] = "hkInsert"]
    /\ UNCHANGED <<statusVars, restVars, now, settings, tmpFiles, loc, filename, outcome,
                   ledgerLast>>

\* INSERT INTO housekeeping(tag,lastrun) values("BackupDB", now()), and the
\* return of BackupDB.  The table takes no more than MaxHousekeeping rows.
BackupDB_Insert(p, execOk) ==
    /\ pc[p] = "hkInsert"
    /\ execOk => Len(housekeeping) < MaxHousekeeping
    /\ housekeeping' = IF execOk
                       THEN Append(housekeeping,
                                   [tag |-> "BackupDB", lastrun |-> FormatTime(now)])
                       ELSE housekeeping
    /\ trace' = [trace EXCEPT ![p] = @ \o << Ev("Insert", IF execOk THEN 1 ELSE 0) >>]
    /\ pc' = [pc EXCEPT ![p] = "idle"]
    /\ outcome' = [outcome EXCEPT ![p] = BackupStatus(loc[p].result)]
    /\ ledgerLast' = "returned"
    /\ UNCHANGED <<statusVars, restVars, now, settings, tmpFiles, loc, filename>>

\* The process dies between the DELETE and the INSERT: BackupDB never returns.
Crash(p) ==
    /\ pc[p] = "hkInsert"
    /\ pc' = [pc EXCEPT ![p] = "idle"]
    /\ trace' = [trace EXCEPT ![p] = @ \o << Ev("Crash", 0) >>]
    /\ ledgerLast' = "crashed"
    /\ UNCHANGED <<statusVars, restVars, now, settings, housekeeping, tmpFiles, loc,
                   filename, outcome>>

\* Time passes.
Tick ==
    /\ now < MaxTime
    /\ now' = now + 1
    /\ UNCHANGED <<statusVars, restVars, settings, housekeeping, tmpFiles, pc, loc,
                   filename, outcome, trace, ledgerLast>>

BackupInit == StatusIdle /\ BackupIdle /\ RestIdle

\* One process calls BackupDB, over and over, in every environment.
Coordinator == "mythbackend"

BackupNext ==
    \/ \E disable \in {0, 1}, store \in StoreContents, db \in DbStates,
          scriptExists \in BOOLEAN, connected \in BOOLEAN :
          BackupDB_Begin(Coordinator, disable, store, db, scriptExists, connected)
    \/ \E a \in ScriptArgsSettings, sgDir \in StorageGroupDirs,
          stageOk \in BOOLEAN, name \in TempNames :
          DoBackupScript_Invoke(Coordinator, a, sgDir, stageOk, name)
    \/ \E status \in ExitCodes, listing \in ScanListings :
          DoBackupScript_Return(Coordinator, status, listing)
    \/ \E installed \in GzipInstalls, sgDir \in StorageGroupDirs,
          stageOk \in BOOLEAN, name \in TempNames :
          DoBackup_Invoke(Coordinator, installed, sgDir, stageOk, name)
    \/ \E status \in ExitCodes : DoBackup_DumpReturn(Coordinator, status)
    \/ \E status \in ExitCodes : DoBackup_GzipReturn(Coordinator, status)
    \/ BackupDB_RecordEnd(Coordinator)
    \/ \E execOk \in BOOLEAN : BackupDB_Delete(Coordinator, execOk)
    \/ \E execOk \in BOOLEAN : BackupDB_Insert(Coordinator, execOk)
    \/ Tick

SpecBackup == BackupInit /\ [][BackupNext]_vars

\* Several processes call BackupDB against the same store, in one
\* environment: backups enabled, a populated store, no script arguments, the
\* default backup directory, a compressor that works, a directory scan that
\* finds the suggested file, and a clock that stands still.
SharedNext ==
    \/ \E p \in Procs, scriptExists \in BOOLEAN, connected \in BOOLEAN :
          BackupDB_Begin(p, 0, <<RecordedTable, SchemaLockTable>>, "up",
                         scriptExists, connected)
    \/ \E p \in Procs, name \in TempNames :
          DoBackupScript_Invoke(p, "", "", TRUE, name)
    \/ \E p \in Procs, status \in ExitCodes :
          DoBackupScript_Return(p, status, <<"">>)
    \/ \E p \in Procs, stageOk \in BOOLEAN, name \in TempNames :
          DoBackup_Invoke(p, {"/bin/gzip"}, "", stageOk, name)
    \/ \E p \in Procs, status \in ExitCodes : DoBackup_DumpReturn(p, status)
    \/ \E p \in Procs : DoBackup_GzipReturn(p, GENERIC_EXIT_OK)
    \/ \E p \in Procs : BackupDB_RecordEnd(p)
    \/ \E p \in Procs, execOk \in BOOLEAN : BackupDB_Delete(p, execOk)
    \/ \E p \in Procs, execOk \in BOOLEAN : BackupDB_Insert(p, execOk)
    \/ \E p \in Procs : Crash(p)

SpecShared == BackupInit /\ [][SharedNext]_vars

(***************************************************************************)
(* Claims about BackupDB.                                                  *)
(***************************************************************************)
\* The positions of trace t that hold one of the operations ops.
At(t, ops) == {i \in 1..Len(t) : t[i].op \in ops}

Has(t, op) == At(t, {op}) # {}

HasEv(t, op, n) == \E i \in 1..Len(t) : t[i] = Ev(op, n)

\* BackupDB has returned to its caller (and has not been called again).
Returned(p) == pc[p] = "idle" /\ outcome[p] # "none"

\* The attempts of the call are over, or none was made.
AttemptsOver(p) == pc[p] \in {"idle", "end", "hkDelete", "hkInsert"}

ShortCircuits == {kDB_Backup_Disabled, kDB_Backup_Empty_DB}

AttemptOps ==
    {"DoBackupScript", "DoBackup", "Stage", "Unlink", "Invoke:script",
     "Invoke:dump", "Invoke:gzip", "Exit:script", "Exit:dump", "Exit:gzip"}

C2_CompletedIffAnAttemptExitedZero ==
    \A p \in Procs :
        Returned(p) =>
            IF Has(trace[p], "SaveStart")
            THEN /\ outcome[p] \in {kDB_Backup_Completed, kDB_Backup_Failed}
                 /\ outcome[p] = kDB_Backup_Completed <=>
                       \/ HasEv(trace[p], "Exit:script", GENERIC_EXIT_OK)
                       \/ HasEv(trace[p], "Exit:dump", GENERIC_EXIT_OK)
            ELSE /\ outcome[p] \in ShortCircuits
                 /\ At(trace[p], AttemptOps) = {}

\* C2 witness: both the script and the dump utility exit non-zero and the
\* call returns Failed.
C2_Witness ==
    /\ Returned(Coordinator)
    /\ outcome[Coordinator] = kDB_Backup_Failed
    /\ HasEv(trace[Coordinator], "Exit:script", 1)
    /\ HasEv(trace[Coordinator], "Exit:dump", 1)

\* A step in which process p calls BackupDB and it returns at once.
ShortCircuitStep(p) ==
    /\ pc[p] = "idle"
    /\ pc'[p] = "idle"
    /\ outcome'[p] \in ShortCircuits
    /\ <<trace[p], outcome[p], filename[p], loc[p]>>
          # <<trace'[p], outcome'[p], filename'[p], loc'[p]>>

\* C3: a call that returns Disabled or EmptyStore records no timestamp, stages
\* no credential file, starts no external process and leaves table
\* housekeeping alone; the disabled policy is tested first, and when it is set
\* the call returns Disabled without listing the tables.
C3_ShortCircuitTouchesNothing ==
    [][ \A p \in Procs :
          /\ ShortCircuitStep(p) =>
                /\ UNCHANGED <<settings, housekeeping, tmpFiles>>
                /\ At(trace'[p], AttemptOps \cup {"SaveStart", "SaveEnd", "Delete",
                                                 "Insert"}) = {}
                /\ outcome'[p] = kDB_Backup_Empty_DB =>
                      /\ Len(trace'[p]) = 2
                      /\ trace'[p][1] = Ev("GetNumSetting", 0)
                      /\ trace'[p][2].op = "GetTables"
          /\ (/\ pc[p] = "idle"
              /\ trace'[p] # <<>>
              /\ trace'[p][1].op = "GetNumSetting"
              /\ trace'[p][1].n # 0) =>
                /\ outcome'[p] = kDB_Backup_Disabled
                /\ Len(trace'[p]) = 1
                /\ pc'[p] = "idle"
      ]_vars

\* C3 witness: after an earlier run left its timestamps and its housekeeping
\* row, a call returns EmptyStore.
C3_Witness ==
    /\ Returned(Coordinator)
    /\ outcome[Coordinator] = kDB_Backup_Empty_DB
    /\ settings.BackupDBLastRunStart # <<>>
    /\ settings.BackupDBLastRunEnd # <<>>
    /\ \E i \in 1..Len(housekeeping) : housekeeping[i].tag = "BackupDB"

\* The staged credential files process p created that still exist.
StagedBy(p) == {f \in tmpFiles : f.owner = p}

\* C4: a staged credential file exists only while the external process it was
\* staged for runs: none is left once the script or the dump utility has
\* returned, whatever the exit status, so none exists when the internal path
\* starts, when the compressor runs, or when BackupDB returns.
C4_StagedFileOnlyDuringItsInvocation ==
    \A p \in Procs :
        /\ pc[p] \notin {"scriptRun", "dumpRun"} => StagedBy(p) = {}
        /\ pc[p] \in {"scriptRun", "dumpRun"} =>
              /\ Cardinality(StagedBy(p)) <= 1
              /\ loc[p].hastemp <=> StagedBy(p) # {}

\* C4 witness: the script failed, the dump utility failed, and no staged file
\* is left when BackupDB returns.
C4_Witness ==
    /\ Returned(Coordinator)
    /\ HasEv(trace[Coordinator], "Exit:script", 1)
    /\ HasEv(trace[Coordinator], "Exit:dump", 1)
    /\ Cardinality(At(trace[Coordinator], {"Unlink"})) = 2
    /\ tmpFiles = {}

\* C5: the command line of every external process BackupDB runs is free of
\* the database password; the password is in the content of the staged file,
\* which the command names by its path.
C5_PasswordOnlyInStagedFile ==
    \A p \in Procs :
        pc[p] \in {"scriptRun", "dumpRun", "gzipRun"} =>
            /\ DBParams.dbPassword \notin Range(loc[p].command)
            /\ loc[p].hastemp =>
                  \E f \in StagedBy(p) :
                      /\ <<f.path>> = loc[p].tempFile
                      /\ f.path \in Range(loc[p].command)
                      /\ DBParams.dbPassword \in Range(f.content)

\* C5 witness: the dump utility runs with a staged file.
C5_Witness ==
    /\ pc[Coordinator] = "dumpRun"
    /\ loc[Coordinator].hastemp
    /\ StagedBy(Coordinator) # {}

\* C6: whenever BackupDB returns Failed the artifact path is the sentinel
\* "__FAILED__".
C6_FailedHasSentinel ==
    \A p \in Procs :
        (Returned(p) /\ outcome[p] = kDB_Backup_Failed)
            => filename[p] = <<"__FAILED__">>

\* C7: a call that passes the preconditions records the start timestamp once,
\* before any attempt, and the end timestamp once, after the last attempt has
\* returned, whether it completes or fails; when it returns the settings hold
\* these two times and the end time is not earlier than the start time.
C7_StartOnceBeforeEndOnceAfter ==
    \A p \in Procs :
        LET t        == trace[p]
            starts   == At(t, {"SaveStart"})
            ends     == At(t, {"SaveEnd"})
            attempts == At(t, AttemptOps)
        IN  /\ Cardinality(starts) <= 1
            /\ Cardinality(ends) <= 1
            /\ (attempts # {} \/ ends # {} \/ pc[p] # "idle") => starts # {}
            /\ \A i \in starts, j \in attempts \cup ends : i < j
            /\ \A i \in ends, j \in attempts : j < i
            /\ (Returned(p) /\ outcome[p] \notin ShortCircuits) =>
                  /\ \E i \in starts, j \in ends :
                        /\ t[i].n <= t[j].n
                        /\ settings.BackupDBLastRunStart = <<t[i].n>>
                        /\ settings.BackupDBLastRunEnd = <<t[j].n>>

\* C7 witness: no script, the staging of the internal path fails, and the
\* call returns Failed with an end time later than its start time.
C7_Witness ==
    /\ Returned(Coordinator)
    /\ outcome[Coordinator] = kDB_Backup_Failed
    /\ HasEv(trace[Coordinator], "ScriptExists", 0)
    /\ HasEv(trace[Coordinator], "Stage", 0)
    /\ \E i \in At(trace[Coordinator], {"SaveStart"}),
          j \in At(trace[Coordinator], {"SaveEnd"}) :
          trace[Coordinator][i].n < trace[Coordinator][j].n

\* The rows of table housekeeping with tag "BackupDB".
BackupDBRows == {i \in 1..Len(housekeeping) : housekeeping[i].tag = "BackupDB"}

\* C8: when no call is running and the last call to reach the bookkeeping
\* returned (it did not crash), table housekeeping holds exactly one row
\* with tag "BackupDB".
C8_ExactlyOneLatestRunRecord ==
    ((\A p \in Procs : pc[p] = "idle") /\ ledgerLast = "returned")
        => Cardinality(BackupDBRows) = 1

(***************************************************************************)
(* CheckRepairStatus.                                                      *)
(***************************************************************************)
\* Table names of the result set.
TableNames == {"t1", "t2"}

\* QString::toLower on the Msg_type and Msg_text values a result set holds.
toLower(s) ==
    CASE s \in {"status", "Status", "STATUS"} -> "status"
      [] s \in {"error", "Error", "ERROR"}    -> "error"
      [] s \in {"ok", "Ok", "OK"}             -> "ok"
      [] s \in {"warning", "Warning"}         -> "warning"
      [] OTHER                                -> s

\* The rows a CHECK TABLE or REPAIR TABLE can return: columns Table, Msg_type
\* and Msg_text.
StatusRows ==
    [Table : TableNames, Msg_type : {"status", "Status"}, Msg_text : {"OK", "ok", "x"}]
    \cup [Table : TableNames, Msg_type : {"error", "ERROR", "warning"}, Msg_text : {"x"}]

\* The locals of CheckRepairStatus before the loop.
StatusLoopInit ==
    [tables |-> <<>>, ok |-> TRUE, table |-> "", previous_table |-> ""]

\* The loop body with Msg_type and Msg_text compared as they are.
CaseSensitiveStatusRow(st, row) ==
    LET table   == row.Table
        type    == row.Msg_type
        text    == row.Msg_text
        changed == table # st.previous_table
        flush   == changed /\ ~st.ok
        ok1     == IF flush THEN TRUE ELSE st.ok
    IN  [tables         |-> IF flush THEN Append(st.tables, st.previous_table)
                                     ELSE st.tables,
         ok             |-> IF "status" = type /\ "ok" = text THEN TRUE
                            ELSE IF "error" = type
                                    \/ ("status" = type /\ "ok" # text)
                                 THEN FALSE
                                 ELSE ok1,
         table          |-> table,
         previous_table |-> IF changed THEN table ELSE st.previous_table]

\* The loop body without the reset of ok when the table changes.
NoResetStatusRow(st, row) ==
    LET table   == row.Table
        type    == row.Msg_type
        text    == row.Msg_text
        changed == table # st.previous_table
        flush   == changed /\ ~st.ok
    IN  [tables         |-> IF flush THEN Append(st.tables, st.previous_table)
                                     ELSE st.tables,
         ok             |-> IF "status" = toLower(type) /\ "ok" = toLower(text) THEN TRUE
                            ELSE IF "error" = toLower(type)
                                    \/ ("status" = toLower(type) /\ "ok" # toLower(text))
                                 THEN FALSE
                                 ELSE st.ok,
         table          |-> table,
         previous_table |-> IF changed THEN table ELSE st.previous_table]

\* One iteration of the while (query.next()) loop.
CheckRepairStatusRow(st, row) ==
    LET table   == row.Table
        type    == row.Msg_type
        text    == row.Msg_text
        changed == table # st.previous_table
        flush   == changed /\ ~st.ok
        ok1     == IF flush THEN TRUE ELSE st.ok
    IN  [tables         |-> IF flush THEN Append(st.tables, st.previous_table)
                                     ELSE st.tables,
         ok             |-> IF "status" = toLower(type) /\ "ok" = toLower(text) THEN TRUE
                            ELSE IF "error" = toLower(type)
                                    \/ ("status" = toLower(type) /\ "ok" # toLower(text))
                                 THEN FALSE
                                 ELSE ok1,
         table          |-> table,
         previous_table |-> IF changed THEN table ELSE st.previous_table]

\* The loop over the rows from row i on.
RECURSIVE StatusLoop(_, _, _)
StatusLoop(st, rs, i) ==
    IF i > Len(rs) THEN st
    ELSE StatusLoop(CheckRepairStatusRow(st, rs[i]), rs, i + 1)

\* CheckRepairStatus(query): the loop, then the check of the last table.
CheckRepairStatus(rs) ==
    LET st == StatusLoop(StatusLoopInit, rs, 1)
    IN  IF ~st.ok THEN Append(st.tables, st.table) ELSE st.tables

StatusInit ==
    /\ rows \in SeqsUpTo(StatusRows, MaxRows)
    /\ statusCalled = FALSE
    /\ badTables = <<>>
    /\ BackupIdle
    /\ RestIdle

\* A caller hands the executed query to CheckRepairStatus.
CallCheckRepairStatus ==
    /\ ~statusCalled
    /\ statusCalled' = TRUE
    /\ badTables' = CheckRepairStatus(rows)
    /\ UNCHANGED <<rows, backupVars, restVars>>

StatusNext == CallCheckRepairStatus

SpecStatus == StatusInit /\ [][StatusNext]_vars

(***************************************************************************)
(* Claims about CheckRepairStatus.                                         *)
(***************************************************************************)
\* Rows i..j of rs all name the same table.
SameTable(rs, i, j) == \A k \in i..j : rs[k].Table = rs[i].Table

\* The rows of every table are contiguous in rs.
Contiguous(rs) ==
    \A i, j \in 1..Len(rs) :
        (i < j /\ rs[i].Table = rs[j].Table) => SameTable(rs, i, j)

\* A row that decides a verdict: type "status" or "error", case-insensitively.
Applicable(row) == toLower(row.Msg_type) \in {"status", "error"}

IsStatusOK(row) == toLower(row.Msg_type) = "status" /\ toLower(row.Msg_text) = "ok"

\* The verdict that "the last applicable row wins" gives rows I of rs.
LastRowBad(rs, I) ==
    LET A == {i \in I : Applicable(rs[i])}
    IN  /\ A # {}
        /\ ~IsStatusOK(rs[CHOOSE m \in A : \A i \in A : i <= m])

NoDuplicates(s) == \A i, j \in 1..Len(s) : s[i] = s[j] => i = j

\* C9: for a result set whose rows are contiguous per table, the returned list
\* holds, once each, exactly the tables whose last status-or-error row is not
\* a status row with text OK (compared case-insensitively); so a status OK
\* after an error clears the table, an error after a status OK marks it bad,
\* a trailing error marks it bad and a single status OK row gives the empty list.
C9_LastApplicableRowWins ==
    (statusCalled /\ Contiguous(rows)) =>
        /\ NoDuplicates(badTables)
        /\ Range(badTables) =
              {t \in TableNames :
                  LastRowBad(rows, {i \in 1..Len(rows) : rows[i].Table = t})}
        /\ (Len(rows) = 1 /\ IsStatusOK(rows[1])) => badTables = <<>>

\* C9 witness: a contiguous result set in mixed case where an error row is
\* cleared by a later status OK of the same table and another table ends bad.
C9_Witness ==
    /\ statusCalled
    /\ rows = << [Table |-> "t1", Msg_type |-> "ERROR",  Msg_text |-> "x"],
                 [Table |-> "t1", Msg_type |-> "Status", Msg_text |-> "OK"],
                 [Table |-> "t2", Msg_type |-> "Status", Msg_text |-> "x"] >>
    /\ badTables = <<"t2">>

\* The maximal runs of rows naming one table, as pairs <<first, last>>.
Runs(rs) ==
    {<<i, j>> \in (1..Len(rs)) \X (1..Len(rs)) :
        /\ i <= j
        /\ SameTable(rs, i, j)
        /\ (i = 1 \/ rs[i - 1].Table # rs[i].Table)
        /\ (j = Len(rs) \/ rs[j + 1].Table # rs[i].Table)}

BadRuns(rs) == {r \in Runs(rs) : LastRowBad(rs, r[1]..r[2])}

\* C10: the verdict of one table never leaks into the next: the returned list
\* is, in order, the table of every run of rows that is bad on its own rows
\* alone, whatever the runs before it were; [(t1,error,x),(t2,status,OK)]
\* gives [t1] and [(t1,status,OK),(t2,error,x)] gives [t2].
C10_NoVerdictLeak ==
    statusCalled =>
        /\ Len(badTables) = Cardinality(BadRuns(rows))
        /\ \A k \in 1..Len(badTables) :
              \E r \in BadRuns(rows) :
                  /\ rows[r[1]].Table = badTables[k]
                  /\ Cardinality({q \in BadRuns(rows) : q[1] <= r[1]}) = k
        /\ rows = << [Table |-> "t1", Msg_type |-> "error",  Msg_text |-> "x"],
                     [Table |-> "t2", Msg_type |-> "status", Msg_text |-> "OK"] >>
              => badTables = <<"t1">>
        /\ rows = << [Table |-> "t1", Msg_type |-> "status", Msg_text |-> "OK"],
                     [Table |-> "t2", Msg_type |-> "error",  Msg_text |-> "x"] >>
              => badTables = <<"t2">>

\* C10 witness: a bad table followed by a table with no deciding row at all.
C10_Witness ==
    /\ statusCalled
    /\ rows = << [Table |-> "t1", Msg_type |-> "error",   Msg_text |-> "x"],
                 [Table |-> "t2", Msg_type |-> "warning", Msg_text |-> "x"] >>
    /\ badTables = <<"t1">>

(***************************************************************************)
(* CheckTables and RepairTables.  A call is cut where CheckTables enters   *)
(* RepairTables.  audit.issued lists the CHECK TABLE and REPAIR TABLE      *)
(* statements the call handed to query.exec(), in order.  Neither function *)
(* keeps anything from one call to the next, so a behaviour holds one call.*)
(***************************************************************************)
MaxAuditRows == 2   \* longest result set of a CHECK TABLE or REPAIR TABLE here

\* The rows such a statement can answer.
AuditRows ==
    [Table : TableNames, Msg_type : {"status"}, Msg_text : {"OK", "x"}]
    \cup [Table : TableNames, Msg_type : {"Error", "warning"}, Msg_text : {"x"}]

AuditResultSets == SeqsUpTo(AuditRows, MaxAuditRows)

\* The MyISAM base tables the store can hold.
EngineTables == { <<>>, <<"t1">>, <<"t1", "t2">> }

\* The options argument of CheckTables: its default.
CheckOptions == {"QUICK"}

\* The lists a caller hands to RepairTables.
RepairArgs == { <<"t1">>, <<"t2">>, <<"t1", "t2">> }

\* QString("CHECK TABLE %1 %2;") and QString("REPAIR TABLE %1;").
Statement(stmt, tables, options) ==
    [stmt |-> stmt, tables |-> tables, options |-> options]

\* CheckTables hands every checked list to RepairTables when repair is set.
RepairWheneverAsked(tables, repair) == repair = TRUE

\* if (!tables.empty()) ... if (repair == true) result = RepairTables(tables).
CallsRepairTables(tables, repair) == tables # <<>> /\ repair = TRUE

\* CheckTables returns true whatever the check found.
ResultIgnoringCheck(tables) == TRUE

\* The result of CheckTables when it does not call RepairTables: true, or
\* false when a table is bad.
ResultWithoutRepair(tables) == tables = <<>>

\* RepairTables returns true whatever the repair left.
RepairAlwaysSucceeds(bad_tables) == TRUE

\* The result of RepairTables after CheckRepairStatus.
RepairTablesResult(bad_tables) == bad_tables = <<>>

\* RepairTables(tables) run on the call record a: the connection test, the
\* REPAIR TABLE statement, and the reduction of its result set rs.
RepairTables(a, tables, connected, execOk, rs) ==
    LET a1 == [a EXCEPT !.repairArg = tables, !.repairConnected = connected]
        a2 == [a1 EXCEPT !.issued = Append(@, Statement("REPAIR TABLE", tables, "")),
                         !.repairExec = execOk]
        bad == CheckRepairStatus(rs)
    IN  IF ~connected THEN [a1 EXCEPT !.repairRet = <<FALSE>>]
        ELSE IF ~execOk THEN [a2 EXCEPT !.repairRet = <<FALSE>>]
        ELSE [a2 EXCEPT !.repairRows = rs, !.bad_tables = bad,
                        !.repairRet = <<RepairTablesResult(bad)>>]

\* No call has been made yet.
NoAuditCall == auditPc = "idle" /\ audit.call = "none"

\* CheckTables(repair, options) up to its return or its call of RepairTables.
CheckTables_Begin(repair, options, connected, myisam, db, execOk, rs) ==
    /\ NoAuditCall
    /\ LET a0  == [AuditNone EXCEPT !.call = "CheckTables", !.repair = repair,
                                    !.checkConnected = connected]
           all == GetTables(myisam, db)
           a1  == [a0 EXCEPT !.all_tables = all]
           a2  == [a1 EXCEPT !.issued = Append(@, Statement("CHECK TABLE", all, options)),
                             !.checkExec = execOk]
           tables == CheckRepairStatus(rs)
           a3  == [a2 EXCEPT !.checkRows = rs, !.tables = tables]
       IN  IF ~connected
           THEN /\ audit' = [a0 EXCEPT !.checkRet = <<FALSE>>]
                /\ auditPc' = "idle"
           ELSE IF all = <<>>
           THEN /\ audit' = [a1 EXCEPT !.checkRet = <<TRUE>>]
                /\ auditPc' = "idle"
           ELSE IF ~execOk
           THEN /\ audit' = [a2 EXCEPT !.checkRet = <<FALSE>>]
                /\ auditPc' = "idle"
           ELSE IF CallsRepairTables(tables, repair)
           THEN /\ audit' = a3
                /\ auditPc' = "repair"
           ELSE /\ audit' = [a3 EXCEPT !.checkRet = <<ResultWithoutRepair(tables)>>]
                /\ auditPc' = "idle"
    /\ UNCHANGED exceptAudit

\* CheckTables from result = RepairTables(tables) to its return.
CheckTables_Repair(connected, execOk, rs) ==
    /\ auditPc = "repair"
    /\ LET a == RepairTables(audit, audit.tables, connected, execOk, rs)
       IN  audit' = [a EXCEPT !.checkRet = a.repairRet]
    /\ auditPc' = "idle"
    /\ UNCHANGED exceptAudit

\* A caller runs RepairTables(tables) itself.
CallRepairTables(tables, connected, execOk, rs) ==
    /\ NoAuditCall
    /\ audit' = RepairTables([AuditNone EXCEPT !.call = "RepairTables"],
                             tables, connected, execOk, rs)
    /\ auditPc' = "idle"
    /\ UNCHANGED exceptAudit

AuditInit == StatusIdle /\ BackupIdle /\ RestIdle

\* The result sets a statement can answer: none unless it was executed.
ResultSetsWhen(executed) == IF executed THEN AuditResultSets ELSE { <<>> }

AuditNext ==
    \/ /\ NoAuditCall
       /\ \E repair \in BOOLEAN, options \in CheckOptions, connected \in BOOLEAN,
             myisam \in EngineTables, db \in DbStates, execOk \in BOOLEAN :
             \E rs \in ResultSetsWhen(connected /\ execOk) :
                CheckTables_Begin(repair, options, connected, myisam, db, execOk, rs)
    \/ /\ auditPc = "repair"
       /\ \E connected \in BOOLEAN, execOk \in BOOLEAN :
             \E rs \in ResultSetsWhen(connected /\ execOk) :
                CheckTables_Repair(connected, execOk, rs)
    \/ /\ NoAuditCall
       /\ \E tables \in RepairArgs, connected \in BOOLEAN, execOk \in BOOLEAN :
             \E rs \in ResultSetsWhen(connected /\ execOk) :
                CallRepairTables(tables, connected, execOk, rs)

SpecAudit == AuditInit /\ [][AuditNext]_vars

(***************************************************************************)
(* Claims about CheckTables and RepairTables.                              *)
(***************************************************************************)
\* A CheckTables call has returned.
CheckTablesDone == auditPc = "idle" /\ audit.call = "CheckTables"

\* The positions of the REPAIR TABLE statements the call issued.
Repairs == {i \in 1..Len(audit.issued) : audit.issued[i].stmt = "REPAIR TABLE"}

\* The tables the check's result set names and its reduction judged ok.
JudgedOk ==
    {audit.checkRows[i].Table : i \in 1..Len(audit.checkRows)}
        \ Range(CheckRepairStatus(audit.checkRows))

\* C11: a CheckTables call with a live connection returns true when the
\* engine-restricted table list is empty or the check leaves no bad table;
\* when the check leaves a bad table it returns false if repair is false and
\* the result of RepairTables applied to the bad tables if repair is true.
C11_CheckTablesResult ==
    (CheckTablesDone /\ audit.checkConnected) =>
        LET bad == CheckRepairStatus(audit.checkRows)
        IN  /\ audit.all_tables = <<>> => audit.checkRet = <<TRUE>>
            /\ (audit.all_tables # <<>> /\ audit.checkExec) =>
                  /\ bad = <<>> => audit.checkRet = <<TRUE>>
                  /\ (bad # <<>> /\ ~audit.repair) => audit.checkRet = <<FALSE>>
                  /\ (bad # <<>> /\ audit.repair) =>
                        /\ audit.repairArg = bad
                        /\ audit.repairRet # <<>>
                        /\ audit.checkRet = audit.repairRet

\* A check that found a bad table, and a repair that mended it.
C11_Witness ==
    /\ CheckTablesDone /\ audit.checkConnected /\ audit.checkExec
    /\ audit.repair
    /\ CheckRepairStatus(audit.checkRows) # <<>>
    /\ audit.repairExec
    /\ audit.checkRet = <<TRUE>>

\* C12: CheckTables issues a repair only when repair is true and the check
\* found a bad table, then once and over exactly the tables the reduction
\* judged bad, none of them judged ok; with repair false it issues none.
C12_RepairOnlyTheBadTables ==
    audit.call = "CheckTables" =>
        LET bad == CheckRepairStatus(audit.checkRows)
        IN  /\ Cardinality(Repairs) <= 1
            /\ ~audit.repair => Repairs = {}
            /\ \A i \in Repairs :
                  /\ audit.repair
                  /\ audit.checkExec
                  /\ bad # <<>>
                  /\ audit.issued[i].tables = bad
                  /\ Range(audit.issued[i].tables) \cap JudgedOk = {}
            /\ (CheckTablesDone /\ audit.checkExec /\ audit.repair /\ bad # <<>>
                /\ audit.repairConnected) => Repairs # {}

\* A repair was issued while the check judged another table ok.
C12_Witness ==
    /\ CheckTablesDone
    /\ Repairs # {}
    /\ JudgedOk # {}

\* C13: RepairTables returns true exactly when, after the repair over the
\* given tables, the reduction of its result set yields no bad table; a
\* connection failure or a failed statement yields false.
C13_RepairTablesResult ==
    audit.repairRet # <<>> =>
        /\ audit.repairRet = <<TRUE>> <=>
              /\ audit.repairConnected
              /\ audit.repairExec
              /\ CheckRepairStatus(audit.repairRows) = <<>>
        /\ audit.repairConnected =>
              \E i \in Repairs : /\ audit.issued[i].tables = audit.repairArg
                                 /\ Repairs = {i}
        /\ ~audit.repairConnected => Repairs = {}

\* A repair that ran and left a table bad.
C13_Witness ==
    /\ audit.call = "RepairTables"
    /\ audit.repairConnected /\ audit.repairExec
    /\ CheckRepairStatus(audit.repairRows) # <<>>
    /\ audit.repairRet = <<FALSE>>

(***************************************************************************)
(* IsNewDatabase.                                                          *)
(***************************************************************************)
MaxTables == 3      \* most base tables the store holds here

\* Names GetTables can list: the schemalock table, and tables whose names
\* hold the word without ending in the schemalock suffix.
ListedNames ==
    {SchemaLockTable, RecordedTable, "mythconverg.schemalock_old",
     "mythconverg.myschemalock2"}

\* The stores: lists of distinct tables.
Stores == {l \in SeqsUpTo(ListedNames, MaxTables) : NoDuplicates(l)}

NewDbInit ==
    /\ StatusIdle /\ BackupIdle /\ AuditIdle /\ VersionIdle
    /\ ProgressIdle /\ LockIdle
    /\ dbTables \in Stores
    /\ tablesListed = <<>>
    /\ newDb = <<>>

\* IsNewDatabase(): GetTables(), then the test of its size and first name.
CallIsNewDatabase(db) ==
    /\ newDb = <<>>
    /\ tablesListed' = GetTables(dbTables, db)
    /\ newDb' = <<IsNewDatabase(tablesListed')>>
    /\ UNCHANGED <<dbTables, exceptNewDb>>

NewDbNext == \E db \in DbStates : CallIsNewDatabase(db)

SpecNewDb == NewDbInit /\ [][NewDbNext]_vars

\* C14: IsNewDatabase returns true exactly when the table list is empty or
\* holds one table and that table is the schemalock table; it returns false
\* for two or more tables, the schemalock table among them or not, and for a
\* single table that is not the schemalock table.
C14_EmptyStoreIffNoneOrOnlyMarker ==
    newDb # <<>> =>
        /\ Len(tablesListed) = 0 => newDb = <<TRUE>>
        /\ (Len(tablesListed) = 1 /\ tablesListed[1] = SchemaLockTable) => newDb = <<TRUE>>
        /\ (Len(tablesListed) = 1 /\ tablesListed[1] # SchemaLockTable) => newDb = <<FALSE>>
        /\ Len(tablesListed) >= 2 => newDb = <<FALSE>>

\* Two listed tables, the schemalock table one of them: not a new database.
C14_Witness ==
    /\ newDb = <<FALSE>>
    /\ Len(tablesListed) = 2
    /\ SchemaLockTable \in Range(tablesListed)

(***************************************************************************)
(* The DBMS version: GetDBMSVersion, QueryDBMSVersion, ParseDBMSVersion    *)
(* and CompareDBMSVersion.  A version string is a sequence of characters;  *)
(* the null and the empty QString are the empty sequence.  An int is a     *)
(* 32-bit int.                                                             *)
(***************************************************************************)
MaxVersionLen == 2  \* longest version string built from VersionAlphabet

\* INT_MAX of <climits>.
IntMax == 2147483647

\* const int DBUtil::kUnknownVersionNumber = INT_MIN.
kUnknownVersionNumber == -IntMax - 1

\* What \d of the QRegExp matches.
Digits == {"0", "1", "2", "3", "4", "5", "6", "7", "8", "9"}

isDigit(c) == c \in Digits

DigitValue(c) ==
    CASE c = "0" -> 0 [] c = "1" -> 1 [] c = "2" -> 2 [] c = "3" -> 3
      [] c = "4" -> 4 [] c = "5" -> 5 [] c = "6" -> 6 [] c = "7" -> 7
      [] c = "8" -> 8 [] c = "9" -> 9

\* digits.indexIn(m_versionString, pos): the first position from pos on that
\* holds a digit.  Positions count from 1 here, and 0 stands for the -1 of
\* no match.
RECURSIVE indexIn(_, _)
indexIn(str, pos) ==
    IF pos > Len(str) THEN 0
    ELSE IF isDigit(str[pos]) THEN pos
    ELSE indexIn(str, pos + 1)

\* The number of consecutive digits from position at on.
RECURSIVE DigitRun(_, _)
DigitRun(str, at) ==
    IF at > Len(str) \/ ~isDigit(str[at]) THEN 0
    ELSE 1 + DigitRun(str, at + 1)

\* A match of one digit only.
matchedLengthOne(str, at) == 1

\* digits.matchedLength() after a match at position at: \d+ is greedy.
matchedLength(str, at) == DigitRun(str, at)

\* section.toInt(&ok, 10) on a string of digits, from digit k on with the
\* value v so far: ok is false, and the value 0, when the number is above
\* INT_MAX.
RECURSIVE toIntFrom(_, _, _)
toIntFrom(section, k, v) ==
    IF k > Len(section) THEN [ok |-> TRUE, value |-> v]
    ELSE LET d == DigitValue(section[k])
         IN  IF v > (IntMax - d) \div 10 THEN [ok |-> FALSE, value |-> 0]
             ELSE toIntFrom(section, k + 1, v * 10 + d)

toInt(section) == toIntFrom(section, 1, 0)

\* The while loop of ParseDBMSVersion, with i counting from 0 as in the code.
RECURSIVE ParseLoop(_, _, _, _)
ParseLoop(str, pos, i, version) ==
    LET at == indexIn(str, pos)
    IN  IF ~(i < 3) \/ at = 0 THEN version
        ELSE LET len     == matchedLength(str, at)
                 section == SubSeq(str, at, at + len - 1)
                 n       == toInt(section)
             IN  ParseLoop(str, at + len, i + 1,
                           [version EXCEPT ![i + 1] = IF n.ok THEN n.value ELSE -1])

\* The loop run on an array whose point starts at 0, not at -1.
ParsedVersionPointZero(str) == ParseLoop(str, 1, 0, <<-1, -1, 0>>)

\* int version[3] = {-1, -1, -1} after the loop over str.
ParsedVersion(str) == ParseLoop(str, 1, 0, <<-1, -1, -1>>)

\* ParseDBMSVersion returns true whatever it parsed.
ParseAlwaysSucceeds(major) == TRUE

\* return m_versionMajor > -1.
ParseSucceeded(major) == major > -1

\* The version array with minor and point exchanged.
VersionArraySwapped(major, minor, point) == <<major, point, minor>>

\* int version[3] = {m_versionMajor, m_versionMinor, m_versionPoint}.
VersionArray(major, minor, point) == <<major, minor, point>>

\* version[i] - compareto[i] fits an int.
Representable(a, b) ==
    /\ ~(b < 0 /\ a > IntMax + b)
    /\ ~(b > 0 /\ a < kUnknownVersionNumber + b)

\* a - b less 2^32, for a difference above INT_MAX.
Wrapped(a, b) == (a - IntMax - 1) - (b + IntMax + 1)

\* The values version[i] - compareto[i] can take: the difference when it fits;
\* when it does not, the language leaves the value open, and the usual build
\* wraps it.
Difference(a, b) ==
    IF Representable(a, b) THEN {a - b} ELSE {Wrapped(a, b), IntMax}

\* A component is left out of the comparison.
ComponentSkipped(v, c) == ~((v > -1) \/ (c # 0))

\* for (int i = 0; i < 3 && !result; i++) from component i on (counted from
\* 1): the values result can have after the loop.
RECURSIVE CompareLoop(_, _, _)
CompareLoop(version, compareto, i) ==
    IF i > 3 THEN {0}
    ELSE IF ComponentSkipped(version[i], compareto[i])
    THEN CompareLoop(version, compareto, i + 1)
    ELSE UNION { IF r # 0 THEN {r} ELSE CompareLoop(version, compareto, i + 1) :
                 r \in Difference(version[i], compareto[i]) }

\* The version is asked for on every call.
ProbeEveryCall(versionString) == TRUE

\* if (m_versionString.isEmpty()) QueryDBMSVersion().
NeedsProbe(versionString) == versionString = <<>>

\* SELECT VERSION() is sent whatever the override.
AlwaysIssuesQuery(dbmsVersion) == TRUE

\* if (dbmsVersion.isEmpty()) of QueryDBMSVersion.
IssuesQuery(dbmsVersion) == dbmsVersion = <<>>

\* QueryDBMSVersion(): the string it stores in m_versionString and the number
\* of SELECT VERSION() it sent; queryOk is query.exec() && query.next().
QueryDBMSVersion(queryOk) ==
    LET dbmsVersion == override
    IN  IF IssuesQuery(dbmsVersion)
        THEN [m_versionString |-> IF queryOk THEN server ELSE <<>>, queries |-> 1]
        ELSE [m_versionString |-> dbmsVersion, queries |-> 0]

\* GetDBMSVersion().
GetDBMSVersion(queryOk) ==
    /\ IF NeedsProbe(m_versionString)
       THEN LET q == QueryDBMSVersion(queryOk)
            IN  /\ m_versionString' = q.m_versionString
                /\ lastCall' = [op |-> "GetDBMSVersion", args |-> <<>>, probes |-> 1,
                                queries |-> q.queries,
                                result |-> <<q.m_versionString>>]
       ELSE /\ m_versionString' = m_versionString
            /\ lastCall' = [op |-> "GetDBMSVersion", args |-> <<>>, probes |-> 0,
                            queries |-> 0, result |-> <<m_versionString>>]
    /\ UNCHANGED <<override, server, m_versionMajor, m_versionMinor,
                   m_versionPoint, exceptVersion>>

\* CompareDBMSVersion(major, minor, point), with the ParseDBMSVersion and the
\* QueryDBMSVersion it runs.
CompareDBMSVersion(major, minor, point, queryOk) ==
    LET needParse   == m_versionMajor < 0
        needProbe   == needParse /\ NeedsProbe(m_versionString)
        q           == QueryDBMSVersion(queryOk)
        str         == IF needProbe THEN q.m_versionString ELSE m_versionString
        probeFailed == needProbe /\ str = <<>>
        ver         == IF needParse /\ ~probeFailed
                       THEN ParsedVersion(str)
                       ELSE <<m_versionMajor, m_versionMinor, m_versionPoint>>
        parseOk     == IF ~needParse THEN TRUE
                       ELSE IF probeFailed THEN FALSE
                       ELSE ParseSucceeded(ver[1])
        results     == IF parseOk
                       THEN CompareLoop(VersionArray(ver[1], ver[2], ver[3]),
                                        <<major, minor, point>>, 1)
                       ELSE {kUnknownVersionNumber}
    IN  /\ m_versionString' = str
        /\ m_versionMajor' = ver[1]
        /\ m_versionMinor' = ver[2]
        /\ m_versionPoint' = ver[3]
        /\ \E r \in results :
              lastCall' = [op |-> "CompareDBMSVersion",
                           args |-> <<major, minor, point>>,
                           probes |-> IF needProbe THEN 1 ELSE 0,
                           queries |-> IF needProbe THEN q.queries ELSE 0,
                           result |-> <<r>>]
        /\ UNCHANGED <<override, server, exceptVersion>>

\* The characters the short version strings are built from.
VersionAlphabet == {"1", "0", ".", "a"}

\* Version strings a server or an operator can give.
V_5_0_22 == <<"5", ".", "0", ".", "2", "2">>

V_10_3 == <<"1", "0", ".", "3">>

V_10_3_something_4 ==
    <<"1", "0", ".", "3", "-", "s", "o", "m", "e", "t", "h", "i", "n", "g", "-", "4">>

V_1_2_3_4 == <<"1", ".", "2", ".", "3", ".", "4">>

V_IntMax_0 == <<"2", "1", "4", "7", "4", "8", "3", "6", "4", "7", ".", "0">>

V_TooBig_5_1 ==
    <<"2", "1", "4", "7", "4", "8", "3", "6", "4", "8", ".", "5", ".", "1">>

V_5_TooBig_1 ==
    <<"5", ".", "2", "1", "4", "7", "4", "8", "3", "6", "4", "8", ".", "1">>

VersionStrings ==
    SeqsUpTo(VersionAlphabet, MaxVersionLen)
    \cup {V_5_0_22, V_10_3, V_10_3_something_4, V_1_2_3_4, V_IntMax_0,
          V_TooBig_5_1, V_5_TooBig_1}

\* The values of the setting DBMSVersionOverride.
Overrides == { <<>>, <<"5", ".", "1">>, <<"x">> }

\* Values a caller compares with.
Requested == {kUnknownVersionNumber, 0, 1}

\* The arguments of CompareDBMSVersion: any three of those values, and the
\* version as parsed.
CompareArgs ==
    (Requested \X Requested \X Requested)
    \cup {ParsedVersion(server), ParsedVersion(override)}

VersionInit ==
    /\ StatusIdle /\ BackupIdle /\ AuditIdle /\ NewDbIdle
    /\ ProgressIdle /\ LockIdle
    /\ override \in Overrides
    /\ server \in VersionStrings
    /\ m_versionString = <<>>
    /\ m_versionMajor = -1
    /\ m_versionMinor = -1
    /\ m_versionPoint = -1
    /\ lastCall = NoCall

VersionNext ==
    \/ \E queryOk \in BOOLEAN : GetDBMSVersion(queryOk)
    \/ \E a \in CompareArgs, queryOk \in BOOLEAN :
          CompareDBMSVersion(a[1], a[2], a[3], queryOk)

SpecVersion == VersionInit /\ [][VersionNext]_vars

(***************************************************************************)
(* Claims about the DBMS version.                                          *)
(***************************************************************************)
\* The last call was a CompareDBMSVersion.
Compared == lastCall.op = "CompareDBMSVersion"

\* The three components the instance holds.
Components == <<m_versionMajor, m_versionMinor, m_versionPoint>>

\* The string holds a digit.
HasDigitGroup(str) == \E i \in 1..Len(str) : isDigit(str[i])

\* The positions where a maximal group of consecutive digits starts.
GroupStarts(str) ==
    {i \in 1..Len(str) : isDigit(str[i]) /\ (i = 1 \/ ~isDigit(str[i - 1]))}

\* The last position of the group that starts at i.
GroupEnd(str, i) ==
    CHOOSE j \in i..Len(str) :
        /\ \A k \in i..j : isDigit(str[k])
        /\ (j = Len(str) \/ ~isDigit(str[j + 1]))

\* Component k of the version string as the parsing rule gives it: the
\* number of the k-th group from the left, -1 for no group or no number.
GroupComponent(str, k) ==
    IF Cardinality(GroupStarts(str)) < k THEN -1
    ELSE LET i == CHOOSE g \in GroupStarts(str) :
                      Cardinality({h \in GroupStarts(str) : h < g}) = k - 1
             n == toInt(SubSeq(str, i, GroupEnd(str, i)))
         IN  IF n.ok THEN n.value ELSE -1

\* The first digit group of the string is a number an int holds.
FirstGroupConverts(str) == HasDigitGroup(str) /\ GroupComponent(str, 1) > -1

\* C15: while the cached version string is empty every GetDBMSVersion call
\* makes one probe attempt (so a failed probe is tried again by the next
\* call); once the cached string is not empty no GetDBMSVersion or
\* CompareDBMSVersion call probes, queries or changes the cached string.
C15_ProbeOnlyWhileUncached ==
    [][ /\ m_versionString # <<>> =>
              /\ lastCall'.probes = 0
              /\ lastCall'.queries = 0
              /\ m_versionString' = m_versionString
        /\ (m_versionString = <<>> /\ lastCall'.op = "GetDBMSVersion") =>
              lastCall'.probes = 1 ]_vars

\* A GetDBMSVersion call answered from the cached string.
C15_Witness ==
    /\ lastCall.op = "GetDBMSVersion"
    /\ lastCall.probes = 0
    /\ m_versionString # <<>>
    /\ lastCall.result = <<m_versionString>>

\* The component of the probed version is left out: it is unknown and the
\* requested value is zero.
SkippedComponent(i) == Components[i] < 0 /\ lastCall.args[i] = 0

\* The first component, in the order major, minor, point, that is not left
\* out and differs from the requested one.
FirstDiffering ==
    {i \in 1..3 :
        /\ ~SkippedComponent(i)
        /\ Components[i] # lastCall.args[i]
        /\ \A j \in 1..(i - 1) :
              SkippedComponent(j) \/ Components[j] = lastCall.args[j]}

\* C16: when parsing succeeds, CompareDBMSVersion returns the signed
\* difference, probed minus requested, of the first component in the order
\* major, minor, point that is not left out and differs, a component being
\* left out only if the probed value is unknown and the requested one is 0;
\* it returns 0 if no such component differs.
C16_SignedDifferenceOfFirstDiffering ==
    (Compared /\ m_versionMajor > -1) =>
        /\ FirstDiffering = {} => lastCall.result = <<0>>
        /\ \A i \in FirstDiffering :
              /\ Representable(Components[i], lastCall.args[i])
              /\ lastCall.result = <<Components[i] - lastCall.args[i]>>

\* The same for the calls whose deciding difference fits an int.
SignedDifferenceWhereItFits ==
    (Compared /\ m_versionMajor > -1) =>
        /\ FirstDiffering = {} => lastCall.result = <<0>>
        /\ \A i \in FirstDiffering :
              Representable(Components[i], lastCall.args[i]) =>
                  lastCall.result = <<Components[i] - lastCall.args[i]>>

\* C17, for every version string that holds a digit group: a
\* CompareDBMSVersion against the three components as parsed returns 0.
C17_EqualToParsedForAnyDigitGroup ==
    (Compared /\ HasDigitGroup(m_versionString) /\ lastCall.args = Components) =>
        lastCall.result = <<0>>

\* C17, for every version string whose first digit group is a number an int
\* holds: a CompareDBMSVersion against the three components as parsed
\* returns 0.
C17_EqualToParsedWhenMajorConverts ==
    (Compared /\ FirstGroupConverts(m_versionString) /\ lastCall.args = Components) =>
        lastCall.result = <<0>>

\* A version of two groups compared with itself, the point unknown on both
\* sides.
C17_Witness ==
    /\ Compared
    /\ m_versionString = V_10_3
    /\ lastCall.args = <<10, 3, -1>>
    /\ lastCall.result = <<0>>

\* C18: parsing takes the first up to three maximal groups of consecutive
\* digits, left to right, as major, minor and point; a component with no
\* group, or whose group is not a number an int holds, is -1; groups after
\* the third are ignored.  So 5.0.22 gives (5, 0, 22), 10.3 gives
\* (10, 3, -1) and 10.3-something-4 gives (10, 3, 4).
C18_FirstThreeMaximalGroups ==
    (Compared /\ m_versionString # <<>>) =>
        /\ \A k \in 1..3 : Components[k] = GroupComponent(m_versionString, k)
        /\ m_versionString = V_5_0_22 => Components = <<5, 0, 22>>
        /\ m_versionString = V_10_3 => Components = <<10, 3, -1>>
        /\ m_versionString = V_10_3_something_4 => Components = <<10, 3, 4>>
        /\ m_versionString = V_1_2_3_4 => Components = <<1, 2, 3>>
        /\ m_versionString = V_5_TooBig_1 => Components = <<5, -1, 1>>

\* A string of three groups with text between them was parsed.
C18_Witness ==
    /\ Compared
    /\ m_versionString = V_10_3_something_4
    /\ Components = <<10, 3, 4>>

\* C19: CompareDBMSVersion returns kUnknownVersionNumber when no version
\* string was obtained, when the string holds no digit group, and when its
\* first digit group is not a number an int holds, whatever the requested
\* values.
C19_UnknownWhenNoMajor ==
    (Compared /\ ~FirstGroupConverts(m_versionString)) =>
        lastCall.result = <<kUnknownVersionNumber>>

\* Each of the three cases, with requested values that are not all zero.
C19_Witness ==
    /\ Compared
    /\ lastCall.args # <<0, 0, 0>>
    /\ lastCall.result = <<kUnknownVersionNumber>>
    /\ \/ m_versionString = <<>>
       \/ m_versionString = <<"a">>
       \/ m_versionString = V_TooBig_5_1

\* C20: with a non-empty DBMSVersionOverride a probe caches the override and
\* sends no SELECT VERSION(); the query is sent only when the override is
\* empty.
C20_OverrideSkipsTheQuery ==
    /\ lastCall.queries <= lastCall.probes
    /\ lastCall.queries = 1 => override = <<>>
    /\ lastCall.probes = 1 =>
          /\ override # <<>> => (lastCall.queries = 0 /\ m_versionString = override)
          /\ override = <<>> => lastCall.queries = 1

\* A probe answered by the override while the server says something else.
C20_Witness ==
    /\ lastCall.probes = 1
    /\ override # <<>>
    /\ server # override
    /\ m_versionString = override

\* C21: in every state of a DBUtil instance, after any GetDBMSVersion and
\* CompareDBMSVersion calls whose probes succeed or fail, the three
\* components are all at their initial -1 or are all what one parse of the
\* version string now cached gives; none is left from another string.
C21_ComponentsFromOneParse ==
    \/ Components = <<-1, -1, -1>>
    \/ /\ m_versionString # <<>>
       /\ \A k \in 1..3 : Components[k] = GroupComponent(m_versionString, k)

\* A parse that failed on its first group and still set minor and point.
C21_Witness ==
    /\ m_versionString = V_TooBig_5_1
    /\ Components = <<-1, 5, 1>>

(***************************************************************************)
(* IsBackupInProgress.  It reads the two timestamps BackupDB saves and the *)
(* clock; the stored times are whole seconds, the clock counts ticks.      *)
(***************************************************************************)
MaxStartSecond == 2 \* latest second a stored timestamp names here

\* The 600 seconds of IsBackupInProgress.
kBackupWindow == 600

\* backupStartTime.secsTo(QDateTime::currentDateTime()) at clock t, for a
\* start stored as the whole second start.
secsTo(start, t) == FormatTime(t) - start

\* The test of the branch without an end time, with the bound included.
StillRunningInclusive(elapsed) == elapsed <= kBackupWindow

\* if (backupStartTime.secsTo(QDateTime::currentDateTime()) < 600).
StillRunning(elapsed) == elapsed < kBackupWindow

\* else if (backupStartTime.secsTo(QDateTime::currentDateTime()) > 600).
GivenUp(elapsed) == elapsed > kBackupWindow

\* IsBackupInProgress() on the settings s at clock t.
IsBackupInProgress(s, t) ==
    LET backupStartTimeStr == s.BackupDBLastRunStart
        backupEndTimeStr   == s.BackupDBLastRunEnd
    IN  IF backupStartTimeStr = <<>> THEN FALSE
        ELSE IF backupEndTimeStr = <<>>
        THEN StillRunning(secsTo(backupStartTimeStr[1], t))
        ELSE IF backupEndTimeStr[1] >= backupStartTimeStr[1] THEN FALSE
        ELSE IF GivenUp(secsTo(backupStartTimeStr[1], t)) THEN FALSE
        ELSE TRUE

\* The values of a timestamp setting.
StoredTimes == { <<>> } \cup { <<sec>> : sec \in 0..MaxStartSecond }

\* The seconds the clock is read at: near the stored times, and around
\* kBackupWindow after them.
ClockSeconds ==
    (0..MaxStartSecond)
    \cup ((kBackupWindow - 1)..(kBackupWindow + MaxStartSecond + 1))

\* The clock in ticks.
ClockTicks ==
    {sec * TicksPerSecond + k : sec \in ClockSeconds, k \in 0..(TicksPerSecond - 1)}

\* The stored times are times the clock has shown.
ProgressInit ==
    /\ StatusIdle /\ RestIdle /\ NoBackupCall
    /\ housekeeping = << [tag |-> "DailyCleanup", lastrun |-> 0] >>
    /\ now \in ClockTicks
    /\ settings \in [BackupDBLastRunStart : StoredTimes, BackupDBLastRunEnd : StoredTimes]
    /\ \A key \in DOMAIN settings :
          settings[key] # <<>> => settings[key][1] <= FormatTime(now)

CallIsBackupInProgress ==
    /\ inProgress = <<>>
    /\ inProgress' = <<IsBackupInProgress(settings, now)>>
    /\ UNCHANGED <<statusVars, backupVars, auditVars, versionVars, newDbVars, lockVars>>

ProgressNext == CallIsBackupInProgress

SpecProgress == ProgressInit /\ [][ProgressNext]_vars

\* Fewer than kBackupWindow seconds lie between the stored start and now.
UnderWindow ==
    now - settings.BackupDBLastRunStart[1] * TicksPerSecond
        < kBackupWindow * TicksPerSecond

\* C22: with no end time recorded IsBackupInProgress returns false when no
\* start time is recorded, and with a start time it returns true exactly
\* when fewer than 600 seconds have passed since the start.
C22_NoEndTrueIffUnderWindow ==
    (inProgress # <<>> /\ settings.BackupDBLastRunEnd = <<>>) =>
        /\ settings.BackupDBLastRunStart = <<>> => inProgress = <<FALSE>>
        /\ settings.BackupDBLastRunStart # <<>> => inProgress = <<UnderWindow>>

\* No end time and exactly 600 seconds since the start: not in progress.
C22_Witness ==
    /\ inProgress = <<FALSE>>
    /\ settings.BackupDBLastRunEnd = <<>>
    /\ settings.BackupDBLastRunStart # <<>>
    /\ now = (settings.BackupDBLastRunStart[1] + kBackupWindow) * TicksPerSecond

\* C23: with both times recorded IsBackupInProgress returns false whenever
\* end >= start; when end < start it returns true exactly when fewer than
\* 600 seconds have passed since the start, so false at exactly 600 seconds.
C23_StaleEndTrueIffUnderWindow ==
    (inProgress # <<>> /\ settings.BackupDBLastRunStart # <<>>
                       /\ settings.BackupDBLastRunEnd # <<>>) =>
        IF settings.BackupDBLastRunEnd[1] >= settings.BackupDBLastRunStart[1]
        THEN inProgress = <<FALSE>>
        ELSE inProgress = <<UnderWindow>>

(***************************************************************************)
(* lockSchema and unlockSchema.  Each process has its own connection; the  *)
(* server keeps the table locks of every connection in dbLocks and frees   *)
(* those of a connection that goes away.  A LOCK TABLE that has to wait is *)
(* a step that is not enabled yet.                                         *)
(***************************************************************************)
LockModes == {"READ", "WRITE"}

\* A lock that lets other connections lock the table too.
SharedLockMode == "READ"

\* LOCK TABLE schemalock WRITE.
SchemaLockMode == "WRITE"

\* The locks left when the locks of connection p go away.
WithoutSession(locks, p) == {l \in locks : l.owner # p}

\* A release that frees only the lock on schemalock.
ReleasedSchemaLockOnly(locks, p) ==
    {l \in locks : ~(l.owner = p /\ l.table = SchemaLockTable)}

\* UNLOCK TABLES on connection p.
ReleasedLocks(locks, p) == WithoutSession(locks, p)

\* The server grants connection p a lock of this mode on the table now.
Grantable(locks, p, table, mode) ==
    \A l \in locks :
        (l.owner # p /\ l.table = table) => (mode = "READ" /\ l.mode = "READ")

\* Connection p holds a lock on schemalock.
HoldsSchemaLock(p) ==
    \E l \in dbLocks : l.owner = p /\ l.table = SchemaLockTable

\* lockSchema goes on to LOCK TABLE whatever CREATE TABLE returned.
AttemptsLockAnyway(createOk) == TRUE

\* if (!query.exec("CREATE TABLE IF NOT EXISTS ...")) return false;
AttemptsLock(createOk) == createOk

LockStep(op, p, ok) == [op |-> op, p |-> p, ok |-> ok]

\* lockSchema up to the end of its first statement.  It is called by a
\* process that is in neither function and whose connection holds no lock
\* on schemalock.  A statement on a lost connection fails.
lockSchema_Create(p, ok) ==
    /\ lockPc[p] \in {"idle", "refused"}
    /\ ~HoldsSchemaLock(p)
    /\ ok => conn[p] = "up"
    /\ lockPc' = [lockPc EXCEPT ![p] = IF AttemptsLock(ok) THEN "created" ELSE "refused"]
    /\ lockLast' = LockStep("create", p, ok)
    /\ UNCHANGED <<dbLocks, conn>>
    /\ UNCHANGED exceptLock

\* The second statement of lockSchema and its return.  The statement frees
\* the locks the connection already has; a failed one may have done so.
lockSchema_Lock(p, ok, freed) ==
    /\ lockPc[p] = "created"
    /\ ok => /\ conn[p] = "up"
             /\ freed
             /\ Grantable(dbLocks, p, SchemaLockTable, SchemaLockMode)
    /\ dbLocks' =
          IF ok
          THEN WithoutSession(dbLocks, p)
               \cup {[owner |-> p, table |-> SchemaLockTable, mode |-> SchemaLockMode]}
          ELSE IF freed THEN WithoutSession(dbLocks, p) ELSE dbLocks
    /\ lockPc' = [lockPc EXCEPT ![p] = IF ok THEN "held" ELSE "refused"]
    /\ lockLast' = LockStep("lock", p, ok)
    /\ UNCHANGED conn
    /\ UNCHANGED exceptLock

\* unlockSchema: one statement, its failure only reported.
unlockSchema(p, ok) ==
    /\ lockPc[p] # "created"
    /\ ok => conn[p] = "up"
    /\ dbLocks' = IF ok THEN ReleasedLocks(dbLocks, p) ELSE dbLocks
    /\ lockPc' = [lockPc EXCEPT ![p] = "idle"]
    /\ lockLast' = LockStep("unlock", p, ok)
    /\ UNCHANGED conn
    /\ UNCHANGED exceptLock

\* The caller locks another table on the connection it hands to
\* unlockSchema later.
LockOtherTable(p, mode) ==
    /\ lockPc[p] \in {"idle", "refused"}
    /\ conn[p] = "up"
    /\ Grantable(dbLocks, p, RecordedTable, mode)
    /\ dbLocks' = WithoutSession(dbLocks, p)
                  \cup {[owner |-> p, table |-> RecordedTable, mode |-> mode]}
    /\ lockLast' = LockStep("other", p, TRUE)
    /\ UNCHANGED <<conn, lockPc>>
    /\ UNCHANGED exceptLock

\* The connection of p goes away and the server frees its locks.
ConnectionLost(p) ==
    /\ conn[p] = "up"
    /\ conn' = [conn EXCEPT ![p] = "lost"]
    /\ dbLocks' = WithoutSession(dbLocks, p)
    /\ lockLast' = LockStep("lost", p, TRUE)
    /\ UNCHANGED lockPc
    /\ UNCHANGED exceptLock

LockInit == StatusIdle /\ BackupIdle /\ RestIdle

LockNext ==
    \E p \in Procs :
        \/ \E ok \in BOOLEAN : lockSchema_Create(p, ok)
        \/ \E ok \in BOOLEAN, freed \in BOOLEAN : lockSchema_Lock(p, ok, freed)
        \/ \E ok \in BOOLEAN : unlockSchema(p, ok)
        \/ \E mode \in LockModes : LockOtherTable(p, mode)
        \/ ConnectionLost(p)

SpecLock == LockInit /\ [][LockNext]_vars

\* lockSchema returned true to p, p has not called unlockSchema since and
\* its connection is alive.
Holder(p) == lockPc[p] = "held" /\ conn[p] = "up"

\* C24: lockSchema returns true exactly when CREATE TABLE IF NOT EXISTS and
\* LOCK TABLE both succeed; a failed create returns false without a lock
\* attempt, a failed lock statement returns false, and the caller that got
\* false holds no lock on schemalock.
C24_TrueIffBothStatementsSucceed ==
    [][\A p \in Procs :
          /\ (lockPc[p] # "created" /\ lockPc'[p] = "created") =>
                lockLast' = LockStep("create", p, TRUE)
          /\ (lockPc[p] # "held" /\ lockPc'[p] = "held") =>
                /\ lockPc[p] = "created"
                /\ lockLast' = LockStep("lock", p, TRUE)
                /\ [owner |-> p, table |-> SchemaLockTable, mode |-> "WRITE"] \in dbLocks'
          /\ (lockLast'.p = p /\ lockLast'.op = "create" /\ ~lockLast'.ok) =>
                /\ lockPc'[p] = "refused"
                /\ dbLocks' = dbLocks
          /\ (lockLast'.p = p /\ lockLast'.op = "lock" /\ ~lockLast'.ok) =>
                lockPc'[p] = "refused"
          /\ lockPc'[p] = "refused" =>
                \A l \in dbLocks' : ~(l.owner = p /\ l.table = SchemaLockTable)
      ]_vars

\* A failed create sent the caller back with false.
C24_Witness ==
    \E p \in Procs :
        /\ lockLast = LockStep("create", p, FALSE)
        /\ lockPc[p] = "refused"
        /\ conn[p] = "up"

\* C25: at most one process at a time has got true from lockSchema without
\* having called unlockSchema since or lost its connection, and while there
\* is one the lock on schemalock is its own.
C25_AtMostOneHolder ==
    \A p \in Procs :
        Holder(p) =>
            /\ \A q \in Procs \ {p} : ~Holder(q)
            /\ \A l \in dbLocks : l.table = SchemaLockTable => l.owner = p

\* One process holds the lock while the other is at its LOCK TABLE.
C25_Witness ==
    \E p \in Procs, q \in Procs :
        /\ p # q
        /\ Holder(p)
        /\ lockPc[q] = "created"
        /\ conn[q] = "up"

\* C26: unlockSchema frees every table lock of the calling connection, leaves
\* the locks of other connections as they were, can be called wherever the
\* caller stands outside lockSchema, and returns the same way when the
\* statement fails.
C26_ReleaseFreesAllOwnLocksOnly ==
    [][lockLast'.op = "unlock" =>
          /\ lockPc'[lockLast'.p] = "idle"
          /\ \A q \in Procs \ {lockLast'.p} : lockPc'[q] = lockPc[q]
          /\ {l \in dbLocks' : l.owner # lockLast'.p}
                = {l \in dbLocks : l.owner # lockLast'.p}
          /\ lockLast'.ok => \A l \in dbLocks' : l.owner # lockLast'.p
          /\ ~lockLast'.ok => dbLocks' = dbLocks
      ]_vars

\* A release went through while the other connection kept its lock.
C26_Witness ==
    \E p \in Procs :
        /\ lockLast = LockStep("unlock", p, TRUE)
        /\ \E l \in dbLocks : l.owner # p

(***************************************************************************)
(* The file BackupDB names to its caller.                                  *)
(***************************************************************************)
\* C27: once the dump utility has exited zero the internal attempt succeeds
\* whatever the compressor does; the returned path is the dump pathname with
\* ".gz" appended exactly when a compressor was found and exited zero, and
\* the dump pathname itself when none was found or the compression failed.
C27_GzOnlyAfterGoodCompression ==
    /\ [](\A p \in Procs :
            (Returned(p) /\ HasEv(trace[p], "Exit:dump", GENERIC_EXIT_OK))
                => outcome[p] = kDB_Backup_Completed)
    /\ [][\A p \in Procs :
            /\ (pc[p] = "dumpRun" /\ pc'[p] # "dumpRun"
                /\ HasEv(trace'[p], "Exit:dump", GENERIC_EXIT_OK)) =>
                  IF loc[p].compressCommand = <<>>
                  THEN /\ pc'[p] = "end"
                       /\ loc'[p].result
                       /\ filename'[p] = loc[p].backupPathname
                       /\ ~Has(trace'[p], "Invoke:gzip")
                  ELSE /\ pc'[p] = "gzipRun"
                       /\ Has(trace'[p], "Invoke:gzip")
            /\ (pc[p] = "gzipRun" /\ pc'[p] # "gzipRun") =>
                  /\ pc'[p] = "end"
                  /\ loc'[p].result
                  /\ HasEv(trace'[p], "Exit:dump", GENERIC_EXIT_OK)
                  /\ filename'[p] =
                        IF HasEv(trace'[p], "Exit:gzip", GENERIC_EXIT_OK)
                        THEN loc[p].backupPathname \o <<".gz">>
                        ELSE loc[p].backupPathname
         ]_vars

\* The compressor was found and failed, and BackupDB completed with the
\* uncompressed file.
C27_Witness ==
    /\ Returned(Coordinator)
    /\ outcome[Coordinator] = kDB_Backup_Completed
    /\ HasEv(trace[Coordinator], "Exit:gzip", 1)
    /\ filename[Coordinator] # <<>>
    /\ filename[Coordinator][Len(filename[Coordinator])] = ".sql"

\* C28: once the script has exited zero the outcome is Completed whatever the
\* scan of the directory finds; the path is empty when no file begins with
\* the suggested name, and otherwise the directory joined with the first
\* file of the listing, also when several files match.
C28_FirstListedFileOrEmpty ==
    /\ [](\A p \in Procs :
            (Returned(p) /\ HasEv(trace[p], "Exit:script", GENERIC_EXIT_OK))
                => /\ outcome[p] = kDB_Backup_Completed
                   /\ Has(trace[p], "Scan")
                   /\ HasEv(trace[p], "Scan", 0) => filename[p] = <<>>)
    /\ [][\A p \in Procs :
            (pc[p] = "scriptRun" /\ pc'[p] # "scriptRun"
             /\ HasEv(trace'[p], "Exit:script", GENERIC_EXIT_OK)) =>
                /\ pc'[p] = "end"
                /\ loc'[p].result
                /\ filename'[p] =
                      IF HasEv(trace'[p], "Scan", 0) THEN <<>>
                      ELSE loc[p].backupDirectory \o <<"/">> \o loc[p].backupFilename
                           \o (IF Has(trace'[p], "dir[0]=backupFilename.gz")
                               THEN <<".gz">> ELSE <<>>)
         ]_vars

\* Two files match and the first of them is named.
C28_Witness ==
    /\ Returned(Coordinator)
    /\ outcome[Coordinator] = kDB_Backup_Completed
    /\ HasEv(trace[Coordinator], "Scan", 2)
    /\ Has(trace[Coordinator], "dir[0]=backupFilename")
    /\ filename[Coordinator] # <<>>
    /\ filename[Coordinator][Len(filename[Coordinator])] = ".sql"

\* C29: a call that returns Completed never names "__FAILED__": when the
\* script failed and the dump utility then exited zero the path is that of
\* the dump; a call that returns Disabled or EmptyStore names the empty path.
C29_CompletedNeverNamesSentinel ==
    \A p \in Procs :
        Returned(p) =>
            /\ outcome[p] = kDB_Backup_Completed =>
                  /\ filename[p] # <<"__FAILED__">>
                  /\ HasEv(trace[p], "Exit:dump", GENERIC_EXIT_OK) =>
                        \E sgDir \in StorageGroupDirs, t \in 0..now,
                           gz \in {<<>>, <<".gz">>} :
                           filename[p] =
                               GetBackupDirectory(sgDir) \o <<"/">>
                               \o CreateBackupFilename(
                                      <<DBParams.dbName, "-", DBSchemaVer>>, ".sql", t)
                               \o gz
            /\ outcome[p] \in ShortCircuits => filename[p] = <<>>

\* The script failed, the dump utility exited zero and BackupDB completed.
C29_Witness ==
    /\ Returned(Coordinator)
    /\ outcome[Coordinator] = kDB_Backup_Completed
    /\ HasEv(trace[Coordinator], "Exit:script", 1)
    /\ HasEv(trace[Coordinator], "Exit:dump", GENERIC_EXIT_OK)
    /\ filename[Coordinator] # <<"__FAILED__">>

\* Process p has saved BackupDBLastRunStart and not yet BackupDBLastRunEnd.
BetweenStartAndEnd(p) ==
    pc[p] \in {"script", "scriptRun", "internal", "dumpRun", "gzipRun", "end"}

\* Fewer than kBackupWindow seconds lie between the start p saved and now.
StartedUnderWindow(p) ==
    \E i \in At(trace[p], {"SaveStart"}) :
        now - trace[p][i].n * TicksPerSecond < kBackupWindow * TicksPerSecond

\* C30: while a process is between saving its start time and saving its end
\* time, and fewer than 10 minutes have passed since that start,
\* IsBackupInProgress returns true to every caller, also when another process
\* running BackupDB on the same store saves its end time meanwhile.
C30_InProgressWhileAnyProcessRuns ==
    \A p \in Procs :
        (BetweenStartAndEnd(p) /\ StartedUnderWindow(p))
            => IsBackupInProgress(settings, now)

\* The store really holds no table, or the schemalock table alone.
ReallyEmpty(tables) == tables = <<>> \/ tables = <<SchemaLockTable>>

\* C31: a populated store is never reported as empty: IsNewDatabase returns
\* true only when the store holds no table or only the schemalock table, also
\* when the connection is unavailable or the table-listing query fails.
C31_PopulatedStoreNeverJudgedEmpty ==
    newDb = <<TRUE>> => ReallyEmpty(dbTables)

====
